---- MODULE Spec2Model ----
(***************************************************************************)
(* bun-threads: the cross-thread Mutex and its Coordinator (the lock       *)
(* broker), as one state machine.                                          *)
(*                                                                         *)
(* Every party talks over one BroadcastChannel name.  A message posted by  *)
(* a client reaches the Coordinator's onmessage handler; the Coordinator's *)
(* replies are broadcast to every channel object that is open when the     *)
(* reply is posted.  Each lock(), cancel() and waiting() call opens a      *)
(* channel of its own with one onmessage listener and closes it when the   *)
(* call settles.  Listeners of one Mutex live in one thread and receive a  *)
(* broadcast in creation order; a closed channel dispatches nothing.       *)
(***************************************************************************)
EXTENDS Integers, Sequences, FiniteSets, TLC

\* Bounds of the model: how many Mutex objects, lock() calls and cancel() calls the
\* clients make under Spec; the same under SpecQueue, where no lock() has a timeout;
\* and how many Mutex.waiting() calls they make under SpecWaiting.
MaxMutex == 2
MaxLock == 2
MaxCancel == 2
QueueMutex == 3
QueueLock == 3
QueueCancel == 1
MaxWaiting == 2

\* The keys the clients use.
Keys ==
    {"X", "Y"}

\* `private id: string | undefined`: the value of an unset id.
Undefined == 0

VARIABLES
    key,        \* Mutex.key, per constructed Mutex (readonly)
    id,         \* Mutex.id: the request id of the latest lock(), or Undefined
    locked,     \* Mutex._locked
    listeners,  \* per Mutex: its open channels' listeners, in creation order
    inbox,      \* per Mutex: message events queued for its listeners
    lockCall,   \* per lock() call (index = request id): the returned promise
    cancelCall, \* per cancel() call: the returned promise; history: what the Coordinator did
    waitCall,   \* per Mutex.waiting() call: the returned promise and its channel
    bus,        \* client messages not yet handled by the Coordinator, in order
    mutexMap,   \* Coordinator.mutexMap: key -> queue of request ids
    arrived,    \* history: the mutex_lock messages in the order the Coordinator handled them
    grants,     \* history: the ids of the mutex_resolve_lock messages, in the order posted
    shutdown,   \* Coordinator.shutdown() was called: its channel is closed
    released    \* what the last release() returned

\* Bounds: the largest size assigned to a pool, how many Thread objects are created,
\* and how many ThreadPool.run and ThreadPool.idle calls are made.
MaxSize == 3
MaxHeap == 5
MaxRun == 4
MaxIdle == 1

\* A number field that has not been assigned yet (`undefined`): every comparison with
\* it is false.
Unset == -2

\* Infinity, as an idleTimeout.
Infinity == 1000

VARIABLES
    pool,       \* ThreadPool: threads (heap indices), _minThreads, _maxThreads, _idleTimeout
    thread,     \* heap of Thread objects
    runCall,    \* per ThreadPool.run call: its promise and where it was invoked
    closeCall,  \* per Thread.close call: its progress and result
    idleCall    \* per read of ThreadPool.idle: the promise

poolVars ==
    <<pool, thread, runCall, closeCall, idleCall>>

\* The state of the pool side as one value, for the operators below.
World ==
    [pool |-> pool, thread |-> thread, runCall |-> runCall, closeCall |-> closeCall,
     idleCall |-> idleCall]

\* No ThreadPool has been constructed.
NoPool ==
    /\ pool = [threads |-> <<>>, min |-> Unset, max |-> Unset, idle |-> Unset,
               error |-> "none", last |-> <<"new", 0>>, sized |-> 0]
    /\ thread = <<>>
    /\ runCall = <<>>
    /\ closeCall = <<>>
    /\ idleCall = <<>>

vars ==
    <<key, id, locked, listeners, inbox, lockCall, cancelCall, waitCall, bus,
      mutexMap, arrived, grants, shutdown, released, pool, thread, runCall, closeCall, idleCall>>

mutexVars ==
    <<key, id, locked, listeners, inbox, lockCall, cancelCall>>

Mutexes ==
    1..Len(key)

----------------------------------------------------------------------------
\* Array operations of the Coordinator, as JavaScript computes them.

\* Array.prototype.indexOf: the 0-based index of x in q, or -1.
IndexOf(q, x) ==
    IF \E n \in 1..Len(q) : q[n] = x
    THEN (CHOOSE n \in 1..Len(q) : q[n] = x /\ \A m \in 1..(n - 1) : q[m] # x) - 1
    ELSE -1

\* Array.prototype.splice(start, 1): a negative start counts from the end.
SpliceRemove(q, start) ==
    LET from == IF start < 0
                THEN (IF Len(q) + start < 0 THEN 0 ELSE Len(q) + start)
                ELSE (IF start > Len(q) THEN Len(q) ELSE start)
    IN  [n \in 1..(IF from < Len(q) THEN Len(q) - 1 ELSE Len(q)) |->
            IF n <= from THEN q[n] ELSE q[n + 1]]

\* Array.prototype.splice(1, 0, x): insert x at index 1 (at the end of a shorter array).
SpliceInsert(q, x) ==
    IF Len(q) = 0 THEN <<x>> ELSE <<q[1], x>> \o Tail(q)

\* Array.prototype.push.
Push(q, x) ==
    Append(q, x)

\* A shift that leaves the queue as it is.
KeepHead(q) ==
    q

\* Array.prototype.shift: drop element 0, if any.
Shift(q) ==
    IF Len(q) = 0 THEN q ELSE Tail(q)

\* this.mutexMap.has(key)
Has(k) ==
    k \in DOMAIN mutexMap

\* The queue of a key; case "mutex_lock" sets [] for a key the map does not have.
QueueOf(k) ==
    IF Has(k) THEN mutexMap[k] ELSE <<>>

\* this.mutexMap.get(key)?.length ?? 0
QueueLength(k) ==
    IF Has(k) THEN Len(mutexMap[k]) ELSE 0

----------------------------------------------------------------------------
\* Messages and channels.  The field w is history only: the number of the cancel()
\* or waiting() call that posted the message; no handler reads it.

Msg(action, i, k, priority, w) ==
    [action |-> action, id |-> i, key |-> k, priority |-> priority, w |-> w]

LockListener(i) ==
    [kind |-> "lock", n |-> i]

CancelListener(c) ==
    [kind |-> "cancel", n |-> c]

\* bc.close(): the channel leaves the open channels of its Mutex.
CloseChannel(ls, l) ==
    SelectSeq(ls, LAMBDA x : x # l)

\* A closed channel dispatches none of the events still queued for it.
DropEvents(box, l) ==
    SelectSeq(box, LAMBDA t : t.l # l)

\* Whether the onmessage handler of listener l names the action of m at all: lock()
\* handles mutex_resolve_lock and mutex_reject_lock, cancel() only mutex_reject_lock.
\* For any other action the handler returns at once, and no event is queued here.
Handles(l, m) ==
    \/ l.kind = "lock" /\ m.action \in {"mutex_resolve_lock", "mutex_reject_lock"}
    \/ l.kind = "cancel" /\ m.action = "mutex_reject_lock"

\* The events one broadcast queues at a Mutex: one per open channel.
Events(ls, m) ==
    LET hs == SelectSeq(ls, LAMBDA l : Handles(l, m))
    IN  [n \in 1..Len(hs) |-> [l |-> hs[n], m |-> m]]

\* this.bc.postMessage of a lock reply.  Request ids are unique, and a listener acts
\* only on a reply whose id equals the id of its own Mutex, so only the channels of
\* the Mutex that generated the id can act on it.
Broadcast(box, m) ==
    [h \in DOMAIN box |->
        IF h = lockCall[m.id].h THEN box[h] \o Events(listeners[h], m) ELSE box[h]]

\* this.bc.postMessage of mutex_resolve_waiting: every open waiting() channel receives it.
BroadcastWaiting(calls, value) ==
    [w \in DOMAIN calls |->
        IF calls[w].state = "pending"
        THEN [calls[w] EXCEPT !.inbox = Append(@, value)]
        ELSE calls[w]]

----------------------------------------------------------------------------
Init ==
    /\ key = <<>>
    /\ id = <<>>
    /\ locked = <<>>
    /\ listeners = <<>>
    /\ inbox = <<>>
    /\ lockCall = <<>>
    /\ cancelCall = <<>>
    /\ waitCall = <<>>
    /\ bus = <<>>
    /\ mutexMap = <<>>
    /\ arrived = <<>>
    /\ grants = <<>>
    /\ shutdown = FALSE
    /\ released = "none"
    /\ NoPool

\* Mutex.lock(key, priority, timeout): new Mutex(key).lock(priority, timeout).
\* The constructor sets key and _locked = false; lock() follows in the same turn.
StaticLock(k, priority, timeout) ==
    /\ LET h == Len(key) + 1
           i == Len(lockCall) + 1
       IN  /\ key' = Append(key, k)
           /\ id' = Append(id, i)
           /\ locked' = Append(locked, FALSE)
           /\ listeners' = Append(listeners, <<LockListener(i)>>)
           /\ inbox' = Append(inbox, <<>>)
           /\ bus' = Append(bus, Msg("mutex_lock", i, k, priority, 0))
           /\ lockCall' = Append(lockCall,
                  [h |-> h, state |-> "pending", timeout |-> timeout])
    /\ UNCHANGED <<cancelCall, waitCall, mutexMap, arrived, grants, shutdown, released>>

\* mutex.lock(priority, timeout): a fresh id, a channel with its listener, the request.
Lock(h, priority, timeout) ==
    /\ LET i == Len(lockCall) + 1
       IN  /\ id' = [id EXCEPT ![h] = i]
           /\ listeners' = [listeners EXCEPT ![h] = Append(@, LockListener(i))]
           /\ bus' = Append(bus, Msg("mutex_lock", i, key[h], priority, 0))
           /\ lockCall' = Append(lockCall,
                  [h |-> h, state |-> "pending", timeout |-> timeout])
    /\ UNCHANGED <<key, locked, inbox, cancelCall, waitCall, mutexMap, arrived, grants, shutdown, released>>

\* The Bun.sleep(timeout) callback of lock(): reject with TimeoutError, close the channel.
\* Once the promise has settled the callback changes nothing.
LockTimeout(i) ==
    /\ lockCall[i].timeout
    /\ lockCall[i].state = "pending"
    /\ lockCall' = [lockCall EXCEPT ![i].state = "TimeoutError"]
    /\ LET h == lockCall[i].h
       IN  /\ listeners' = [listeners EXCEPT ![h] = CloseChannel(@, LockListener(i))]
           /\ inbox' = [inbox EXCEPT ![h] = DropEvents(@, LockListener(i))]
    /\ UNCHANGED <<key, id, locked, cancelCall, waitCall, bus, mutexMap, arrived, grants, shutdown, released>>

\* mutex.cancel(timeout)
Cancel(h) ==
    /\ IF id[h] # Undefined
       THEN /\ listeners' = [listeners EXCEPT
                   ![h] = Append(@, CancelListener(Len(cancelCall) + 1))]
            /\ bus' = Append(bus,
                   Msg("mutex_cancel", id[h], key[h], FALSE, Len(cancelCall) + 1))
            /\ cancelCall' = Append(cancelCall,
                   [h |-> h, id |-> id[h], state |-> "pending",
                    handled |-> FALSE, before |-> <<>>, after |-> <<>>])
       ELSE UNCHANGED <<listeners, bus, cancelCall>>
    /\ UNCHANGED <<key, id, locked, inbox, lockCall, waitCall, mutexMap, arrived, grants, shutdown, released>>

\* The Bun.sleep(timeout) callback of cancel().
CancelTimeout(c) ==
    /\ cancelCall[c].state = "pending"
    /\ cancelCall' = [cancelCall EXCEPT ![c].state = "TimeoutError"]
    /\ LET h == cancelCall[c].h
       IN  /\ listeners' = [listeners EXCEPT ![h] = CloseChannel(@, CancelListener(c))]
           /\ inbox' = [inbox EXCEPT ![h] = DropEvents(@, CancelListener(c))]
    /\ UNCHANGED <<key, id, locked, lockCall, waitCall, bus, mutexMap, arrived, grants, shutdown, released>>

\* A release() that also posts for a Mutex that is not locked but has a request out.
LockedOrWaiting(h) ==
    locked[h] \/ id[h] # Undefined

\* `get locked()`: this._locked, as release() tests it.
Locked(h) ==
    locked[h]

\* mutex.release()
Release(h) ==
    /\ IF Locked(h)
       THEN /\ bus' = Append(bus, Msg("mutex_release", Undefined, key[h], FALSE, 0))
            /\ id' = [id EXCEPT ![h] = Undefined]
            /\ locked' = [locked EXCEPT ![h] = FALSE]
            /\ released' = "true"
       ELSE /\ UNCHANGED <<bus, id, locked>>
            /\ released' = "false"
    /\ UNCHANGED <<key, listeners, inbox, lockCall, cancelCall, waitCall, mutexMap,
                   arrived, grants, shutdown>>

\* The event at position n leaves the events queued at a Mutex.
RemoveAt(box, n) ==
    SubSeq(box, 1, n - 1) \o SubSeq(box, n + 1, Len(box))

\* The events of Mutex h that may be dispatched next.  Every channel receives its
\* own events in the order they were posted; in which order the channels of one
\* thread are served is left to the runtime, so the first event of any channel may
\* be the next.
Deliverable(h) ==
    {n \in DOMAIN inbox[h] : \A k \in 1..(n - 1) : inbox[h][k].l # inbox[h][n].l}

\* bc.onmessage of lock(), for the event at position n of the Mutex's queue.
OnLockMessage(h, i, m, n) ==
    IF m.action = "mutex_resolve_lock" /\ m.id = id[h]
    THEN /\ locked' = [locked EXCEPT ![h] = TRUE]
         /\ lockCall' = [lockCall EXCEPT ![i].state = "resolved"]
         /\ listeners' = [listeners EXCEPT ![h] = CloseChannel(@, LockListener(i))]
         /\ inbox' = [inbox EXCEPT ![h] = DropEvents(@, LockListener(i))]
         /\ UNCHANGED <<id, cancelCall>>
    ELSE IF m.action = "mutex_reject_lock" /\ m.id = id[h]
    THEN /\ lockCall' = [lockCall EXCEPT ![i].state = "LockCancelError"]
         /\ listeners' = [listeners EXCEPT ![h] = CloseChannel(@, LockListener(i))]
         /\ inbox' = [inbox EXCEPT ![h] = DropEvents(@, LockListener(i))]
         /\ UNCHANGED <<id, locked, cancelCall>>
    ELSE /\ inbox' = [inbox EXCEPT ![h] = RemoveAt(@, n)]
         /\ UNCHANGED <<id, locked, lockCall, cancelCall, listeners>>

\* bc.onmessage of cancel().
OnCancelMessage(h, c, m, n) ==
    IF m.action = "mutex_reject_lock" /\ m.id = id[h]
    THEN /\ cancelCall' = [cancelCall EXCEPT ![c].state = "true"]
         /\ id' = [id EXCEPT ![h] = Undefined]
         /\ listeners' = [listeners EXCEPT ![h] = CloseChannel(@, CancelListener(c))]
         /\ inbox' = [inbox EXCEPT ![h] = DropEvents(@, CancelListener(c))]
         /\ UNCHANGED <<locked, lockCall>>
    ELSE /\ inbox' = [inbox EXCEPT ![h] = RemoveAt(@, n)]
         /\ UNCHANGED <<id, locked, lockCall, cancelCall, listeners>>

\* One message event is dispatched to the listener it was queued for.
Dispatch(h) ==
    /\ \E n \in Deliverable(h) :
          LET t == inbox[h][n]
          IN  IF t.l.kind = "lock"
              THEN OnLockMessage(h, t.l.n, t.m, n)
              ELSE OnCancelMessage(h, t.l.n, t.m, n)
    /\ UNCHANGED <<key, waitCall, bus, mutexMap, arrived, grants, shutdown, released>>

\* Mutex.waiting(key, timeout)
Waiting(k) ==
    /\ waitCall' = Append(waitCall,
           [key |-> k, state |-> "pending", value |-> 0, asked |-> FALSE,
            length |-> 0, inbox |-> <<>>])
    /\ bus' = Append(bus, Msg("mutex_waiting", Undefined, k, FALSE, Len(waitCall) + 1))
    /\ UNCHANGED <<mutexVars, mutexMap, arrived, grants, shutdown, released>>

\* A waiting() call that resolves with the latest reply it has received.
OnWaitingMessageLatest(w) ==
    /\ waitCall[w].state = "pending"
    /\ waitCall[w].inbox # <<>>
    /\ waitCall' = [waitCall EXCEPT ![w].state = "resolved",
                                    ![w].value = waitCall[w].inbox[Len(waitCall[w].inbox)],
                                    ![w].inbox = <<>>]
    /\ UNCHANGED <<mutexVars, bus, mutexMap, arrived, grants, shutdown, released>>

\* bc.onmessage of Mutex.waiting(): the first mutex_resolve_waiting resolves the promise.
OnWaitingMessage(w) ==
    /\ waitCall[w].state = "pending"
    /\ waitCall[w].inbox # <<>>
    /\ waitCall' = [waitCall EXCEPT ![w].state = "resolved",
                                    ![w].value = Head(waitCall[w].inbox),
                                    ![w].inbox = <<>>]
    /\ UNCHANGED <<mutexVars, bus, mutexMap, arrived, grants, shutdown, released>>

\* The Bun.sleep(timeout) callback of Mutex.waiting().
WaitingTimeout(w) ==
    /\ waitCall[w].state = "pending"
    /\ waitCall' = [waitCall EXCEPT ![w].state = "TimeoutError", ![w].inbox = <<>>]
    /\ UNCHANGED <<mutexVars, bus, mutexMap, arrived, grants, shutdown, released>>

----------------------------------------------------------------------------
\* Coordinator.onmessage, one action per case of its switch.

\* The queue of the key after case "mutex_lock" has inserted the id.
LockQueue(m) ==
    IF m.priority THEN SpliceInsert(QueueOf(m.key), m.id) ELSE Push(QueueOf(m.key), m.id)

\* A Coordinator that also resolves a priority request on arrival, whoever holds the key.
ResolvesAtOncePriority(q, m) ==
    Len(q) = 1 \/ m.priority

\* `if (this.mutexMap.get(ev.data.key)!.length === 1)`: the queue was empty before
\* the insertion, and the lock is resolved immediately.
ResolvesAtOnce(q, m) ==
    Len(q) = 1

\* The queue of the key after case "mutex_cancel" has spliced the id out.
CancelQueue(m) ==
    SpliceRemove(mutexMap[m.key], IndexOf(mutexMap[m.key], m.id))

\* Map.set
MapSet(k, q) ==
    [x \in DOMAIN mutexMap \cup {k} |-> IF x = k THEN q ELSE mutexMap[x]]

CoordinatorLock ==
    /\ ~shutdown
    /\ bus # <<>>
    /\ Head(bus).action = "mutex_lock"
    /\ LET m == Head(bus)
           q == LockQueue(m)
       IN  /\ mutexMap' = MapSet(m.key, q)
           /\ arrived' = Append(arrived, [id |-> m.id, key |-> m.key,
                  priority |-> m.priority, queue |-> QueueOf(m.key),
                  at |-> IndexOf(q, m.id)])
           /\ IF ResolvesAtOnce(q, m)
              THEN /\ inbox' = Broadcast(inbox, Msg("mutex_resolve_lock", m.id, m.key, FALSE, 0))
                   /\ grants' = Append(grants, m.id)
              ELSE UNCHANGED <<inbox, grants>>
    /\ bus' = Tail(bus)
    /\ UNCHANGED <<key, id, locked, listeners, lockCall, cancelCall, waitCall, shutdown, released>>

CoordinatorRelease ==
    /\ ~shutdown
    /\ bus # <<>>
    /\ Head(bus).action = "mutex_release"
    /\ LET m == Head(bus)
       IN  IF Has(m.key)
           THEN LET q == Shift(mutexMap[m.key])
                IN  /\ mutexMap' = MapSet(m.key, q)
                    /\ IF Len(q) > 0
                       THEN /\ inbox' = Broadcast(inbox,
                                   Msg("mutex_resolve_lock", q[1], m.key, FALSE, 0))
                            /\ grants' = Append(grants, q[1])
                       ELSE UNCHANGED <<inbox, grants>>
           ELSE UNCHANGED <<mutexMap, inbox, grants>>
    /\ bus' = Tail(bus)
    /\ UNCHANGED <<key, id, locked, listeners, lockCall, cancelCall, waitCall, arrived, shutdown, released>>

CoordinatorWaiting ==
    /\ ~shutdown
    /\ bus # <<>>
    /\ Head(bus).action = "mutex_waiting"
    /\ LET m == Head(bus)
           calls == BroadcastWaiting(waitCall, QueueLength(m.key))
       IN  waitCall' = [calls EXCEPT ![m.w].asked = TRUE,
                                     ![m.w].length = QueueLength(m.key)]
    /\ bus' = Tail(bus)
    /\ UNCHANGED <<mutexVars, mutexMap, arrived, grants, shutdown, released>>

CoordinatorCancel ==
    /\ ~shutdown
    /\ bus # <<>>
    /\ Head(bus).action = "mutex_cancel"
    /\ LET m == Head(bus)
       IN  IF Has(m.key)
           THEN /\ mutexMap' = MapSet(m.key, CancelQueue(m))
                /\ inbox' = Broadcast(inbox, Msg("mutex_reject_lock", m.id, m.key, FALSE, 0))
                /\ cancelCall' = [cancelCall EXCEPT ![m.w].handled = TRUE,
                                                    ![m.w].before = mutexMap[m.key],
                                                    ![m.w].after = CancelQueue(m)]
           ELSE UNCHANGED <<mutexMap, inbox, cancelCall>>
    /\ bus' = Tail(bus)
    /\ UNCHANGED <<key, id, locked, listeners, lockCall, waitCall, arrived, grants, shutdown, released>>

----------------------------------------------------------------------------
\* coordinator.shutdown(): the channel of the Coordinator is closed, so the messages
\* not yet handled and those posted later are never handled, and the maps are cleared.
CoordinatorShutdown ==
    /\ ~shutdown
    /\ shutdown' = TRUE
    /\ mutexMap' = <<>>
    /\ UNCHANGED <<mutexVars, waitCall, bus, arrived, grants, released>>

----------------------------------------------------------------------------
\* The calls the clients may still make, under the bounds given.
MayLock(mutexes, locks) ==
    Len(key) < mutexes /\ Len(lockCall) < locks

MayRelock(locks) ==
    Len(lockCall) < locks

MayCancel(cancels) ==
    Len(cancelCall) < cancels

\* The Mutex and its Coordinator: every call with every argument.
Next ==
    /\ UNCHANGED poolVars
    /\ \/ \E k \in Keys, priority \in BOOLEAN, timeout \in BOOLEAN :
              MayLock(MaxMutex, MaxLock) /\ StaticLock(k, priority, timeout)
       \/ \E h \in Mutexes, priority \in BOOLEAN, timeout \in BOOLEAN :
              MayRelock(MaxLock) /\ Lock(h, priority, timeout)
       \/ \E i \in DOMAIN lockCall : LockTimeout(i)
       \/ \E h \in Mutexes : MayCancel(MaxCancel) /\ Cancel(h)
       \/ \E c \in DOMAIN cancelCall : CancelTimeout(c)
       \/ \E h \in Mutexes : Release(h)
       \/ \E h \in Mutexes : Dispatch(h)
       \/ CoordinatorLock
       \/ CoordinatorRelease
       \/ CoordinatorCancel
       \/ CoordinatorShutdown

Spec ==
    Init /\ [][Next]_vars

\* Longer queues: three lock() calls, none with a timeout.
NextQueue ==
    /\ UNCHANGED poolVars
    /\ \/ \E k \in Keys, priority \in BOOLEAN :
              MayLock(QueueMutex, QueueLock) /\ StaticLock(k, priority, FALSE)
       \/ \E h \in Mutexes, priority \in BOOLEAN :
              MayRelock(QueueLock) /\ Lock(h, priority, FALSE)
       \/ \E h \in Mutexes : MayCancel(QueueCancel) /\ Cancel(h)
       \/ \E c \in DOMAIN cancelCall : CancelTimeout(c)
       \/ \E h \in Mutexes : Release(h)
       \/ \E h \in Mutexes : Dispatch(h)
       \/ CoordinatorLock
       \/ CoordinatorRelease
       \/ CoordinatorCancel

SpecQueue ==
    Init /\ [][NextQueue]_vars

\* Mutex.waiting() queries beside lock() and release().
NextWaiting ==
    /\ UNCHANGED poolVars
    /\ \/ \E k \in Keys, priority \in BOOLEAN :
              MayLock(MaxMutex, MaxLock) /\ StaticLock(k, priority, FALSE)
       \/ \E h \in Mutexes : Release(h)
       \/ \E h \in Mutexes : Dispatch(h)
       \/ \E k \in Keys : Len(waitCall) < MaxWaiting /\ Waiting(k)
       \/ \E w \in DOMAIN waitCall : OnWaitingMessage(w)
       \/ \E w \in DOMAIN waitCall : WaitingTimeout(w)
       \/ CoordinatorLock
       \/ CoordinatorRelease
       \/ CoordinatorWaiting

SpecWaiting ==
    Init /\ [][NextWaiting]_vars

\* No cancel() and no timeout; every event is dispatched, every message handled, and
\* a Mutex that is locked calls release().
NextLive ==
    /\ UNCHANGED poolVars
    /\ \/ \E k \in Keys, priority \in BOOLEAN :
              MayLock(MaxMutex, MaxLock) /\ StaticLock(k, priority, FALSE)
       \/ \E h \in Mutexes, priority \in BOOLEAN :
              MayRelock(MaxLock) /\ Lock(h, priority, FALSE)
       \/ \E h \in Mutexes : Release(h)
       \/ \E h \in Mutexes : Dispatch(h)
       \/ CoordinatorLock
       \/ CoordinatorRelease

ReleaseHeld ==
    \E h \in Mutexes : locked[h] /\ Release(h)

DispatchSome ==
    \E h \in Mutexes : Dispatch(h)

SpecLive ==
    /\ Init /\ [][NextLive]_vars
    /\ WF_vars(CoordinatorLock /\ UNCHANGED poolVars)
    /\ WF_vars(CoordinatorRelease /\ UNCHANGED poolVars)
    /\ WF_vars(DispatchSome /\ UNCHANGED poolVars)
    /\ WF_vars(ReleaseHeld /\ UNCHANGED poolVars)

----------------------------------------------------------------------------
\* ThreadPool and Thread.
\*
\* A Thread object is a record in the heap `thread`; the pool's `threads` array holds
\* heap indices, so a Thread that was popped from the array lives on for whoever still
\* holds it (a close() in progress, an 'idle' listener of a waiting run()).

\* a < b and a > b in JavaScript, where b may be undefined.
Less(a, b) ==
    b # Unset /\ a < b

Greater(a, b) ==
    b # Unset /\ a > b

\* Thread: `if (value < 0) throw new RangeError` in the idleTimeout setter.
ThreadThrows(value) ==
    value # Unset /\ value < 0

\* new Thread(fn, { idleTimeout }): closed, nothing queued; idleTimeout ?? 0.  The
\* fn "none" is undefined: what ThreadPool's `this.fn` is until the constructor ends.
NewThread(fn, idleTimeout) ==
    [queued |-> 0, worker |-> 0, dying |-> FALSE, timer |-> FALSE, stale |-> 0,
     idleTimeout |-> IF idleTimeout = Unset THEN 0 ELSE idleTimeout, once |-> <<>>,
     fn |-> fn, wfn |-> "none", user |-> <<>>, idles |-> 0]

\* Thread `set idleTimeout(value)` for a value that does not throw: on an open Thread
\* the timer is cleared and, unless value is Infinity, armed again.
SetThreadIdleTimeout(rec, value) ==
    [rec EXCEPT !.timer = IF rec.worker # 0 THEN value # Infinity ELSE @,
                !.idleTimeout = value]

\* Thread.busy and Thread.closed
Busy(rec) ==
    rec.queued > 0

Closed(rec) ==
    rec.worker = 0

\* The callables given to a Thread, and the arguments of a call: the callable throws
\* for the argument "bad".
Callables ==
    {"f", "g"}

Args ==
    {"ok", "bad"}

\* The worker's handler of a 'call' message: it runs the function it holds and posts
\* the result or the error under the id of the call.  A worker that was sent no
\* function throws on `n.call` and posts the error.
Invoke(fn, arg, call) ==
    [id |-> call, action |-> IF arg = "bad" \/ fn = "none" THEN "reject" ELSE "resolve",
     data |-> <<fn, arg, call>>]

\* ThreadPool `get busy`
PoolBusy(w) ==
    Cardinality({i \in DOMAIN w.pool.threads : Busy(w.thread[w.pool.threads[i]])})

\* The calls of run that have settled.
Settled(calls) ==
    {c \in DOMAIN calls : calls[c].state = "settled"}

\* The promise a run call returns, not yet given to a Thread.
NewCall(w, arg) ==
    [state |-> "waiting", unit |-> 0, worker |-> 0, lost |-> FALSE, killed |-> FALSE,
     busyAt |-> FALSE, freeAt |-> FALSE, race |-> {},
     idle0 |-> PoolBusy(w) = 0,
     done0 |-> Cardinality(Settled(w.runCall)),
     resized |-> FALSE,
     arg |-> arg, fn0 |-> "none", ran |-> "none", outcome |-> "none", data |-> <<>>,
     queued0 |-> 0]

\* Whether the listener l is taken off when its event fires.  once() registers with
\* `super.on`, as on() does; prependOnceListener registers with
\* `super.prependOnceListener`, whose listeners are removed before their call.
Removed(l) ==
    l.once /\ l.prepend

\* The element of a set of one element.  Operators below take the value of their
\* argument once, as x, through Only({... x ... : x \in {w}}).
Only(s) ==
    CHOOSE r \in s : TRUE

\* The listener i of Thread t is called.
Called(w, t, i) ==
    Only({[x EXCEPT !.thread[t].user[i].calls = @ + 1,
                    !.thread[t].user[i].gone = Removed(x.thread[t].user[i])] : x \in {w}})

\* A new promise of run, for a call with this argument.
NewRun(w, arg) ==
    Only({[x EXCEPT !.runCall = Append(@, NewCall(x, arg))] : x \in {w}})

\* The first statements of Thread.run for the run call c, with what the call finds.
Issue(w, t, c) ==
    Only({[x EXCEPT !.runCall[c].state = "running",
                    !.runCall[c].unit = t,
                    !.runCall[c].busyAt = Busy(x.thread[t]),
                    !.runCall[c].freeAt =
                        \E i \in DOMAIN x.pool.threads : ~Busy(x.thread[x.pool.threads[i]]),
                    !.runCall[c].fn0 = x.thread[t].fn,
                    !.runCall[c].queued0 = x.thread[t].queued] : x \in {w}})

\* A run that replaces a worker on which terminate() was called.
OpenedAnew(w, t, c) ==
    Only({IF x.thread[t].worker = 0 \/ x.thread[t].dying
          THEN [x EXCEPT !.thread[t].worker = c, !.thread[t].wfn = x.thread[t].fn,
                         !.thread[t].dying = FALSE]
          ELSE x : x \in {w}})

\* `if (typeof this.worker === 'undefined')`: a worker is created for the run call c
\* and is sent the function.
Opened(w, t, c) ==
    Only({IF x.thread[t].worker = 0
          THEN [x EXCEPT !.thread[t].worker = c, !.thread[t].wfn = x.thread[t].fn]
          ELSE x : x \in {w}})

\* The listener of the call is attached and the call is posted.  A call posted to a
\* worker on which terminate() was called is never answered.
Posting(w, t, c) ==
    Only({[x EXCEPT !.runCall[c].worker = x.thread[t].worker,
                    !.runCall[c].lost = x.thread[t].dying,
                    !.runCall[c].ran = x.thread[t].wfn] : x \in {w}})

\* Thread.run after queued++.  On a closed Thread whose fn is undefined the worker
\* is created and `this.fn.toString()` throws inside the executor: the promise
\* rejects, no listener is attached and no call is posted.
Post(w, t, c) ==
    Only({IF x.thread[t].worker = 0 /\ x.thread[t].fn = "none"
          THEN [Opened(x, t, c) EXCEPT !.runCall[c].state = "settled",
                                       !.runCall[c].outcome = "rejected",
                                       !.runCall[c].data = <<"none", "TypeError", c>>]
          ELSE Posting(Opened(x, t, c), t, c) : x \in {w}})

\* clearTimeout(this.timer)
ClearTimer(w, t) ==
    [w EXCEPT !.thread[t].timer = FALSE]

\* emit('idle') calls the listeners of the promises that wait for 'idle': each is
\* resolved by this emission, and a later call of its listener resolves nothing.
Idled(w, t) ==
    [w EXCEPT !.thread[t].once = <<>>, !.thread[t].idles = @ + 1]

\* After emit('idle'): the timer is armed, without clearing one that is pending,
\* and _queued becomes 0.
ArmTimer(w, t) ==
    Only({[x EXCEPT !.thread[t].stale =
                        IF x.thread[t].idleTimeout # Infinity /\ x.thread[t].timer
                        THEN @ + 1 ELSE @,
                    !.thread[t].timer =
                        x.thread[t].idleTimeout # Infinity \/ x.thread[t].timer,
                    !.thread[t].queued = 0] : x \in {w}})

\* this._queued = value
Assign(w, t, value) ==
    [w EXCEPT !.thread[t].queued = value]

RECURSIVE ThreadRun(_, _, _), SetQueued(_, _, _), Emit(_, _, _, _), Listen(_, _, _, _)

\* The listener i of Thread t on an emission of event: a listener whose body calls
\* run does so inside the emission, the first time it is called.
Listen(w, t, event, i) ==
    Only({IF x.thread[t].user[i].event # event \/ x.thread[t].user[i].gone THEN x
          ELSE IF x.thread[t].user[i].act = "run" /\ x.thread[t].user[i].calls = 0
          THEN ThreadRun(NewRun(Called(x, t, i), "ok"), t, Len(x.runCall) + 1)
          ELSE Called(x, t, i) : x \in {w}})

\* emit(event): the listeners of the caller, from the i-th on, in the order of their
\* registration.
Emit(w, t, event, i) ==
    Only({IF i > Len(x.thread[t].user) THEN x
          ELSE Emit(Listen(x, t, event, i), t, event, i + 1) : x \in {w}})

\* `set queued(value)`: a negative value throws; 0 emits 'idle' and arms the timer;
\* a value above 0 on an idle Thread clears the timer and emits 'busy'.  _queued is
\* assigned last.
SetQueued(w, t, value) ==
    Only({IF value < 0 THEN x
          ELSE IF value = 0 THEN ArmTimer(Emit(Idled(x, t), t, "idle", 1), t)
          ELSE IF x.thread[t].queued = 0
          THEN Assign(Emit(ClearTimer(x, t), t, "busy", 1), t, value)
          ELSE Assign(x, t, value) : x \in {w}})

\* Thread.run for the run call c: `this.queued++`, then the worker and the call.
ThreadRun(w, t, c) ==
    Only({Post(SetQueued(Issue(x, t, c), t, x.thread[t].queued + 1), t, c) : x \in {w}})

\* The run calls in flight on the worker of Thread t.
InFlight(w, t) ==
    {c \in DOMAIN w.runCall :
        /\ w.runCall[c].state = "running"
        /\ ~w.runCall[c].lost
        /\ w.runCall[c].unit = t
        /\ w.runCall[c].worker = w.thread[t].worker}

\* this.worker.terminate() in the close call k, with calls in flight on the worker.
\* An answer the worker has posted by then is still dispatched, as long as the worker
\* has not exited; one it has not posted never comes.  The calls are marked killed:
\* their reply may come or not.
Terminate(w, k, t) ==
    Only({[x EXCEPT !.thread[t].dying = TRUE,
                    !.closeCall[k].state = "terminating",
                    !.closeCall[k].worker = x.thread[t].worker,
                    !.closeCall[k].queued = x.thread[t].queued,
                    !.closeCall[k].killed = InFlight(x, t),
                    !.closeCall[k].idles = x.thread[t].idles,
                    !.runCall = [c \in DOMAIN x.runCall |->
                        IF c \in InFlight(x, t)
                        THEN [x.runCall[c] EXCEPT !.killed = TRUE]
                        ELSE x.runCall[c]]] : x \in {w}})

\* The code of Thread.close from clearTimeout to the call of terminate():
\* clearTimeout, emit 'close', this.worker.terminate().  this.worker is read after
\* the emission, as y: with no worker then, the property access throws and the
\* close() promise rejects; a worker that a 'close' listener's run has created is
\* terminated.
CloseTerminate(w, k) ==
    Only({Only({IF y.thread[x.closeCall[k].t].worker = 0
                THEN [y EXCEPT !.closeCall[k].state = "TypeError"]
                ELSE Terminate(y, k, x.closeCall[k].t) :
                y \in {Emit(ClearTimer(x, x.closeCall[k].t), x.closeCall[k].t, "close", 1)}}) :
          x \in {w}})

\* close(): `await this.idle` on a Thread that is open and not busy.  The promise is
\* resolved, and the continuation of the await is a microtask all the same.
Suspends(rec, force) ==
    rec.worker # 0 /\ ~force /\ ~Busy(rec)

\* Thread.close(force), up to its first suspension.  A forced close goes on to
\* terminate(); a close of a busy Thread registers a once('idle') listener; a close
\* of an open Thread that is not busy is left with its continuation pending.
ThreadClose(w, t, force) ==
    LET k == Len(w.closeCall) + 1
        call == [t |-> t, force |-> force, state |-> "false", worker |-> 0, queued |-> 0,
                 killed |-> {}, open0 |-> w.thread[t].worker, idles |-> 0]
        rec == w.thread[t]
    IN  IF rec.worker = 0
        THEN [w EXCEPT !.closeCall = Append(@, call)]
        ELSE IF Suspends(rec, force)
        THEN [w EXCEPT !.closeCall = Append(@, [call EXCEPT !.state = "resuming"])]
        ELSE IF ~force
        THEN [w EXCEPT !.closeCall = Append(@, [call EXCEPT !.state = "waiting"]),
                       !.thread[t].once = Append(@, [kind |-> "close", n |-> k])]
        ELSE CloseTerminate([w EXCEPT !.closeCall = Append(@, call)], k)

\* The callback of the idle timer, `async () => await this.close()`, is a task of its
\* own: the continuation of a close() it leaves pending runs before the task ends.
TimerClose(w, t) ==
    Only({IF x.closeCall[Len(x.closeCall)].state = "resuming"
          THEN CloseTerminate(x, Len(x.closeCall))
          ELSE x : x \in {ThreadClose(w, t, FALSE)}})

\* A test that lets every number through.
IsNumber(value2) ==
    value2 = value2

\* Sizes are passed to the setters doubled, so that a non-integer can be assigned:
\* value2 = 1 stands for 0.5.  Number.isInteger(value):
IsInteger(value2) ==
    value2 % 2 = 0

\* `throw new RangeError(...)`: the call ends here, with what it has done so far.
Throw(w) ==
    [w EXCEPT !.pool.error = "RangeError"]

Threw(w) ==
    w.pool.error # "none"

\* The Thread at index i (from 0) of this.threads.
ThreadAt(w, i) ==
    w.thread[w.pool.threads[i + 1]]

\* this.threads[this.threads.length] = new Thread(...), and this.threads.push(new Thread(...))
PushThread(w, idleTimeout) ==
    [w EXCEPT !.thread = Append(@, NewThread(w.pool.fn, idleTimeout)),
              !.pool.threads = Append(@, Len(w.thread) + 1)]

RECURSIVE PushThreads(_, _, _)
PushThreads(w, length, idleTimeout) ==
    IF Len(w.pool.threads) < length
    THEN PushThreads(PushThread(w, idleTimeout), length, idleTimeout)
    ELSE w

\* `while (this.threads.length > value) this.threads.pop()?.close()`
RECURSIVE PopClose(_, _)
PopClose(w, value) ==
    IF Len(w.pool.threads) > value
    THEN LET t == w.pool.threads[Len(w.pool.threads)]
             popped == [w EXCEPT !.pool.threads = SubSeq(@, 1, Len(@) - 1)]
         IN  PopClose(ThreadClose(popped, t, FALSE), value)
    ELSE w

\* The two loops of `set minThreads` and its final assignment.  The first loop makes
\* the Threads below value warm, creating the missing ones; the second gives the
\* others the pool's idleTimeout, where the Thread's setter throws on a negative one.
MinLoops(w, value) ==
    LET len == Len(w.pool.threads)
        warm == [w EXCEPT !.thread =
                    [t \in DOMAIN w.thread |->
                        IF /\ \E i \in 0..(value - 1) : i < len /\ w.pool.threads[i + 1] = t
                           /\ w.thread[t].idleTimeout # Infinity
                        THEN SetThreadIdleTimeout(w.thread[t], Infinity)
                        ELSE w.thread[t]]]
        w1 == PushThreads(warm, value, Infinity)
        rest == {w1.pool.threads[i + 1] : i \in value..(Len(w1.pool.threads) - 1)}
        differ == {t \in rest : w1.thread[t].idleTimeout # w1.pool.idle}
    IN  IF differ # {} /\ ThreadThrows(w1.pool.idle)
        THEN Throw(w1)
        ELSE [w1 EXCEPT !.thread =
                    [t \in DOMAIN w1.thread |->
                        IF t \in differ
                        THEN SetThreadIdleTimeout(w1.thread[t], w1.pool.idle)
                        ELSE w1.thread[t]],
                        !.pool.min = value]

\* `set maxThreads` after its validation: shrink from the tail or grow, then assign.
MaxLoops(w, value) ==
    IF Less(value, w.pool.max)
    THEN [PopClose(w, value) EXCEPT !.pool.max = value]
    ELSE IF Greater(value, w.pool.max)
    THEN IF Len(w.pool.threads) < value /\ ThreadThrows(w.pool.idle)
         THEN Throw(w)
         ELSE [PushThreads(w, value, w.pool.idle) EXCEPT !.pool.max = value]
    ELSE [w EXCEPT !.pool.max = value]

RECURSIVE SetMinThreads(_, _), SetMaxThreads(_, _)

\* ThreadPool `set minThreads(value)`
SetMinThreads(w, value2) ==
    IF value2 < 0 \/ ~IsInteger(value2)
    THEN Throw(w)
    ELSE LET value == value2 \div 2
             w1 == IF Greater(value, w.pool.max) THEN SetMaxThreads(w, value2) ELSE w
         IN  IF Threw(w1) THEN w1 ELSE MinLoops(w1, value)

\* ThreadPool `set maxThreads(value)`
SetMaxThreads(w, value2) ==
    IF value2 < 2 \/ ~IsInteger(value2)
    THEN Throw(w)
    ELSE LET value == value2 \div 2
             w1 == IF Less(value, w.pool.min) THEN SetMinThreads(w, value2) ELSE w
         IN  IF Threw(w1) THEN w1 ELSE MaxLoops(w1, value)

\* An assignment that reaches every Thread of the pool.
SetIdleTimeoutAll(w, value) ==
    IF w.pool.threads # <<>> /\ ThreadThrows(value)
    THEN Throw(w)
    ELSE [w EXCEPT !.thread =
                [t \in DOMAIN w.thread |->
                    IF \E i \in DOMAIN w.pool.threads : w.pool.threads[i] = t
                    THEN SetThreadIdleTimeout(w.thread[t], value)
                    ELSE w.thread[t]],
                   !.pool.idle = value]

\* ThreadPool `set idleTimeout(value)`: every Thread from index minThreads on.
SetIdleTimeout(w, value) ==
    LET rest == {w.pool.threads[i + 1] : i \in w.pool.min..(Len(w.pool.threads) - 1)}
    IN  IF rest # {} /\ ThreadThrows(value)
        THEN Throw(w)
        ELSE [w EXCEPT !.thread =
                    [t \in DOMAIN w.thread |->
                        IF t \in rest
                        THEN SetThreadIdleTimeout(w.thread[t], value)
                        ELSE w.thread[t]],
                       !.pool.idle = value]

\* The first loop of the constructor when the second throws: the Threads it has made
\* are in the array, and those they replaced are still in the heap.
FirstLoop(w) ==
    LET length == IF Len(w.pool.threads) > w.pool.min
                  THEN Len(w.pool.threads) ELSE w.pool.min
    IN  [w EXCEPT !.thread = @ \o [i \in 1..w.pool.min |-> NewThread("f", Infinity)],
                  !.pool.threads = [i \in 1..length |->
                        IF i <= w.pool.min THEN Len(w.thread) + i ELSE w.pool.threads[i]]]

\* The two loops of the constructor: a new Thread of the parameter fn at every index
\* below maxThreads, warm below minThreads.  A Thread the setters left at an index
\* from maxThreads on stays in the array, with the fn the setters gave it.  With a
\* negative idleTimeout the first Thread of the second loop throws.
ConstructLoops(w) ==
    LET length == IF Len(w.pool.threads) > w.pool.max
                  THEN Len(w.pool.threads) ELSE w.pool.max
    IN  IF w.pool.min < w.pool.max /\ ThreadThrows(w.pool.idle)
        THEN Throw(FirstLoop(w))
        ELSE [w EXCEPT !.thread =
                    [i \in 1..length |->
                        IF i <= w.pool.min THEN NewThread("f", Infinity)
                        ELSE IF i <= w.pool.max THEN NewThread("f", w.pool.idle)
                        ELSE ThreadAt(w, i - 1)],
                       !.pool.threads = [i \in 1..length |-> i]]

\* new ThreadPool(fn, { minThreads, maxThreads, idleTimeout }): the three setters,
\* the two loops, and `this.fn = fn` as the last statement.
Construct(w, min2, max2, idleTimeout) ==
    LET w1 == SetMinThreads(w, min2)
        w2 == IF Threw(w1) THEN w1 ELSE SetMaxThreads(w1, max2)
        w3 == IF Threw(w2) THEN w2 ELSE SetIdleTimeout(w2, idleTimeout)
        w4 == IF Threw(w3) THEN w3 ELSE ConstructLoops(w3)
    IN  IF Threw(w4) THEN w4 ELSE [w4 EXCEPT !.pool.fn = "f"]

\* The call starts with no exception pending; pool.last records the member called
\* and its argument.
Call(w, member, value) ==
    [w EXCEPT !.pool.error = "none", !.pool.last = <<member, value>>]

\* The state the call leaves.
Return(w) ==
    /\ pool' = w.pool
    /\ thread' = w.thread
    /\ runCall' = w.runCall
    /\ closeCall' = w.closeCall
    /\ idleCall' = w.idleCall

NoMutex ==
    /\ key = <<>>
    /\ id = <<>>
    /\ locked = <<>>
    /\ listeners = <<>>
    /\ inbox = <<>>
    /\ lockCall = <<>>
    /\ cancelCall = <<>>
    /\ waitCall = <<>>
    /\ bus = <<>>
    /\ mutexMap = <<>>
    /\ arrived = <<>>
    /\ grants = <<>>
    /\ shutdown = FALSE
    /\ released = "none"

noMutexVars ==
    <<key, id, locked, listeners, inbox, lockCall, cancelCall, waitCall, bus,
      mutexMap, arrived, grants, shutdown, released>>

\* The values assigned to the sizes (doubled) and to idleTimeout.
SizeInputs ==
    {-2, 1} \cup {2 * n : n \in 0..MaxSize}

IdleInputs ==
    {-1, 0, Infinity}

Empty ==
    [pool |-> [threads |-> <<>>, min |-> Unset, max |-> Unset, idle |-> Unset,
               error |-> "none", last |-> <<"new", 0>>, sized |-> 0, fn |-> "none"],
     thread |-> <<>>, runCall |-> <<>>, closeCall |-> <<>>, idleCall |-> <<>>]

\* Every pool the constructor returns without throwing.
Constructed ==
    {w \in {Construct(Empty, min2, max2, idleTimeout) :
                min2 \in SizeInputs, max2 \in SizeInputs, idleTimeout \in IdleInputs} :
        ~Threw(w)}

PoolSetMinThreads(value2) ==
    /\ Return(SetMinThreads(Call(World, "minThreads", value2), value2))
    /\ UNCHANGED noMutexVars

PoolSetMaxThreads(value2) ==
    /\ Return(SetMaxThreads(Call(World, "maxThreads", value2), value2))
    /\ UNCHANGED noMutexVars

PoolSetIdleTimeout(value) ==
    /\ Return(SetIdleTimeout(Call(World, "idleTimeout", value), value))
    /\ UNCHANGED noMutexVars

\* The Thread objects created so far stay within the bound.
MayCreate ==
    Len(thread') <= MaxHeap

\* The state a constructor leaves.
Start(w) ==
    /\ pool = w.pool
    /\ thread = w.thread
    /\ runCall = w.runCall
    /\ closeCall = w.closeCall
    /\ idleCall = w.idleCall

InitSizing ==
    /\ NoMutex
    /\ \E w \in Constructed : Start(w)

\* Construction and the three setters, with every value.
NextSizing ==
    \/ \E value2 \in SizeInputs : PoolSetMinThreads(value2) /\ MayCreate
    \/ \E value2 \in SizeInputs : PoolSetMaxThreads(value2) /\ MayCreate
    \/ \E value \in IdleInputs : PoolSetIdleTimeout(value)

SpecSizing ==
    InitSizing /\ [][NextSizing]_vars

\* Calls of ThreadPool.run, Thread.run, ThreadPool.idle and the replies of the workers.
\*
\* A worker is named by the run call that created it.  A reply is one task of the
\* event loop: the listener of Thread.run settles the promise and decrements queued;
\* when queued reaches 0 the 'idle' listeners run, and the continuations they wake
\* run in the same task, in the order of their distance in promise hops: close()
\* (await this.idle), then ThreadPool.run (await Promise.race).  The `then` of
\* ThreadPool.idle (Promise.all) comes behind the continuations of the caller.

MaxClose == 3

\* A find that returns the last of the indices that satisfy the test.
FindLast(hits) ==
    IF hits = {} THEN 0 ELSE CHOOSE i \in hits : \A j \in hits : i >= j

\* Array.prototype.find: the first of the indices (from 1) that satisfy the test,
\* or 0 for undefined.
Find(hits) ==
    IF hits = {} THEN 0 ELSE CHOOSE i \in hits : \A j \in hits : i <= j

\* A test that takes every open Thread.
Open(rec) ==
    ~Closed(rec)

NotBusyOpen(rec) ==
    ~Busy(rec) /\ ~Closed(rec)

NotBusy(rec) ==
    ~Busy(rec)

\* ThreadPool.run: the decision tree, then Thread.run on the winner; with every
\* Thread busy the call waits for the first 'idle' of the Threads now in the pool.
PoolRunCall(w) ==
    LET c == Len(w.runCall) + 1
        call == NewCall(w, "ok")
        w1 == [w EXCEPT !.runCall = Append(@, call)]
        first == Find({i \in DOMAIN w.pool.threads : NotBusyOpen(w.thread[w.pool.threads[i]])})
        second == Find({i \in DOMAIN w.pool.threads : NotBusy(w.thread[w.pool.threads[i]])})
    IN  IF first # 0 THEN ThreadRun(w1, w.pool.threads[first], c)
        ELSE IF second # 0 THEN ThreadRun(w1, w.pool.threads[second], c)
        ELSE [w1 EXCEPT !.runCall[c].race = {w.pool.threads[i] : i \in DOMAIN w.pool.threads},
                        !.thread = [t \in DOMAIN w.thread |->
                            IF \E i \in DOMAIN w.pool.threads : w.pool.threads[i] = t
                            THEN [w.thread[t] EXCEPT !.once = Append(@, [kind |-> "run", n |-> c])]
                            ELSE w.thread[t]]]

\* ThreadPool `get idle`: Promise.all over the idle promise of every Thread, then a
\* `then`.  The idle promise of a Thread that is not busy is resolved at once; the
\* promise the getter returns is pending all the same, and with no Thread busy it
\* settles in a later microtask.
PoolIdleCall(w) ==
    LET n == Len(w.idleCall) + 1
        pending == {w.pool.threads[i] : i \in
                        {j \in DOMAIN w.pool.threads : Busy(w.thread[w.pool.threads[j]])}}
    IN  [w EXCEPT !.idleCall = Append(@, [pending |-> pending,
                                          state |-> IF pending = {} THEN "settling" ELSE "pending",
                                          busy |-> PoolBusy(w),
                                          value |-> 0, queued |-> 0, idles |-> 0, idles0 |-> 0]),
                  !.thread = [t \in DOMAIN w.thread |->
                        IF t \in pending
                        THEN [w.thread[t] EXCEPT !.once = Append(@, [kind |-> "idle", n |-> n])]
                        ELSE w.thread[t]]]

\* The continuations of close() that waited for 'idle', in listener order.
RECURSIVE WakeClose(_, _)
WakeClose(w, ls) ==
    Only({IF ls = <<>> THEN x
          ELSE WakeClose(IF Head(ls).kind = "close" THEN CloseTerminate(x, Head(ls).n) ELSE x,
                         Tail(ls)) : x \in {w}})

\* No continuation runs.
WakeNone(w, t, ls) ==
    w

\* No promise of Thread.idle is resolved.
AwaitStays(w, t, ls) ==
    w

\* Only the call that has waited longest takes the Thread that emitted.
WakeRunFirst(w, t, ls) ==
    LET hits == {n \in DOMAIN ls :
                    ls[n].kind = "run" /\ w.runCall[ls[n].n].state = "waiting"}
    IN  IF hits = {} THEN w ELSE ThreadRun(w, t, ls[Find(hits)].n)

\* The continuations of ThreadPool.run that waited: every call that is still waiting
\* takes the Thread that emitted as its winner.
RECURSIVE WakeRun(_, _, _)
WakeRun(w, t, ls) ==
    Only({IF ls = <<>> THEN x
          ELSE WakeRun(IF Head(ls).kind = "run" /\ x.runCall[Head(ls).n].state = "waiting"
                       THEN ThreadRun(x, t, Head(ls).n)
                       ELSE x,
                       t, Tail(ls)) : x \in {w}})

\* The idle promises of this Thread inside the Promise.all of ThreadPool.idle.
RECURSIVE WakeIdle(_, _, _)
WakeIdle(w, t, ls) ==
    Only({IF ls = <<>> THEN x
          ELSE WakeIdle(IF Head(ls).kind = "idle"
                        THEN [x EXCEPT !.idleCall[Head(ls).n].pending = @ \ {t}]
                        ELSE x,
                        t, Tail(ls)) : x \in {w}})

\* The promises of ThreadPool.idle whose last Thread has resolved: Promise.all
\* resolves and its `then` runs in later microtasks, behind the continuations the
\* caller has on the call that was answered.
ResolveIdle(w) ==
    Only({[x EXCEPT !.idleCall = [n \in DOMAIN x.idleCall |->
            IF x.idleCall[n].state = "pending" /\ x.idleCall[n].pending = {}
            THEN [x.idleCall[n] EXCEPT !.state = "settling"]
            ELSE x.idleCall[n]]] : x \in {w}})

\* The promises of Thread.idle that waited for this 'idle'.
RECURSIVE WakeAwait(_, _, _)
WakeAwait(w, t, ls) ==
    Only({IF ls = <<>> THEN x
          ELSE WakeAwait(IF Head(ls).kind = "await"
                         THEN [x EXCEPT !.idleCall[Head(ls).n].state = "resolved",
                                        !.idleCall[Head(ls).n].pending = {},
                                        !.idleCall[Head(ls).n].value = t,
                                        !.idleCall[Head(ls).n].queued = x.thread[t].queued,
                                        !.idleCall[Head(ls).n].idles = x.thread[t].idles]
                         ELSE x,
                         t, Tail(ls)) : x \in {w}})

\* The continuations of close() that are behind a continuation of the caller: they
\* are left pending.
RECURSIVE DeferClose(_, _)
DeferClose(w, ls) ==
    Only({IF ls = <<>> THEN x
          ELSE DeferClose(IF Head(ls).kind = "close"
                          THEN [x EXCEPT !.closeCall[Head(ls).n].state = "resuming"]
                          ELSE x,
                          Tail(ls)) : x \in {w}})

\* The position in ls of the first promise of Thread.idle the caller holds, or
\* Len(ls) + 1: the continuation the caller gave it runs before those of the
\* listeners registered after it.
FirstAwait(ls) ==
    IF \E n \in DOMAIN ls : ls[n].kind = "await"
    THEN Find({n \in DOMAIN ls : ls[n].kind = "await"})
    ELSE Len(ls) + 1

\* The continuations that an 'idle' of Thread t wakes, given its once listeners.
\* Those of close() run one microtask after the emission, in listener order, up
\* to the first continuation of the caller; then the waiting calls of
\* ThreadPool.run, then the promises of ThreadPool.idle.
EmitIdle(w, t, ls) ==
    ResolveIdle(WakeIdle(WakeRun(
        DeferClose(WakeClose(WakeAwait(w, t, ls), SubSeq(ls, 1, FirstAwait(ls) - 1)),
                   SubSeq(ls, FirstAwait(ls) + 1, Len(ls))),
        t, ls), t, ls))

\* A listener that takes every message for its own.
MatchesAny(event, c) ==
    event.id = event.id

\* `if (event.id === id)` in the listener of the run call c.
Matches(event, c) ==
    event.id = c

\* The listener of the run call c settles the promise with the data of the message.
Settle(w, c, event) ==
    Only({[x EXCEPT !.runCall[c].state = "settled",
                    !.runCall[c].outcome =
                        IF event.action = "resolve" THEN "resolved" ELSE "rejected",
                    !.runCall[c].data = event.data] : x \in {w}})

\* this.queued--
Decrement(w, t) ==
    Only({SetQueued(x, t, x.thread[t].queued - 1) : x \in {w}})

\* The first of a set of run calls, in the order of their listeners.
First(calls) ==
    CHOOSE d \in calls : \A e \in calls : d <= e

\* The listeners of these run calls take the message, one after the other.
RECURSIVE Check(_, _, _, _)
Check(w, t, event, calls) ==
    IF calls = {} THEN w
    ELSE Check(Decrement(Settle(w, First(calls), event), t), t, event, calls \ {First(calls)})

\* The end of the task of a message: with an 'idle' emitted, the continuations.
AfterReply(before, w, t) ==
    Only({IF x.thread[t].idles > before.thread[t].idles
          THEN EmitIdle(x, t, before.thread[t].once)
          ELSE x : x \in {w}})

\* The message of the worker for the run call c reaches the listeners attached to
\* the worker.
Message(w, c) ==
    Invoke(w.runCall[c].ran, w.runCall[c].arg, c)

ReplyCall(w, c) ==
    AfterReply(w,
               Check(w, w.runCall[c].unit, Message(w, c),
                     {d \in InFlight(w, w.runCall[c].unit) : Matches(Message(w, c), d)}),
               w.runCall[c].unit)

\* An assignment to a size of a pool in use is counted, and the calls in flight are
\* marked: the pool they end in is not the pool they were issued in.
Resized(w) ==
    [w EXCEPT !.pool.sized = @ + 1, !.runCall = [c \in DOMAIN w.runCall |->
        IF w.runCall[c].state # "settled"
        THEN [w.runCall[c] EXCEPT !.resized = TRUE]
        ELSE w.runCall[c]]]

\* The close() calls whose continuation is a pending microtask.
Resuming ==
    {k \in DOMAIN closeCall : closeCall[k].state = "resuming"}

\* The promises of ThreadPool.idle that settle in a pending microtask.
Settling ==
    {n \in DOMAIN idleCall : idleCall[n].state = "settling"}

\* A task of the event loop starts only with no microtask pending.
Task ==
    Resuming = {} /\ Settling = {}

\* The continuation of the first close() that awaited a resolved idle promise.
CloseResume ==
    /\ Resuming # {}
    /\ Return(CloseTerminate(World, First(Resuming)))
    /\ UNCHANGED noMutexVars

\* The `then` of ThreadPool.idle runs, for a promise made with no Thread busy or
\* one whose last Thread has emitted 'idle': the record keeps the value
\* ThreadPool.busy has by now.
PoolIdleResume ==
    /\ Settling # {}
    /\ idleCall' = [idleCall EXCEPT ![First(Settling)].state = "resolved",
                                    ![First(Settling)].busy = PoolBusy(World)]
    /\ UNCHANGED <<pool, thread, runCall, closeCall>>
    /\ UNCHANGED noMutexVars

\* ThreadPool.close(force): Thread.close(force) on every Thread of the pool, in
\* the order of the array, each up to its first suspension.
RECURSIVE PoolCloseCall(_, _, _)
PoolCloseCall(w, i, force) ==
    Only({IF i > Len(x.pool.threads) THEN x
          ELSE PoolCloseCall(ThreadClose(x, x.pool.threads[i], force), i + 1, force) :
          x \in {w}})

PoolClose(force) ==
    /\ Return(PoolCloseCall(World, 1, force))
    /\ UNCHANGED noMutexVars

PoolRun ==
    /\ Return(PoolRunCall(World))
    /\ UNCHANGED noMutexVars

PoolIdle ==
    /\ Return(PoolIdleCall(World))
    /\ UNCHANGED noMutexVars

\* The worker's message for the run call c is dispatched: the call was posted to a
\* live worker, and the worker has not exited.
Reply(c) ==
    /\ c \in DOMAIN runCall
    /\ runCall[c].state = "running"
    /\ ~runCall[c].lost
    /\ runCall[c].worker = thread[runCall[c].unit].worker
    /\ Return(ReplyCall(World, c))
    /\ UNCHANGED noMutexVars

\* The reply to a call that no terminate() has overtaken: it comes.
Answer(c) ==
    /\ c \in DOMAIN runCall
    /\ ~runCall[c].killed
    /\ Task
    /\ Reply(c)

\* The idle timer of a Thread fires: `async () => await this.close()`.
TimerFire(t) ==
    /\ thread[t].timer
    /\ Return(TimerClose([World EXCEPT !.thread[t].timer = FALSE], t))
    /\ UNCHANGED noMutexVars

\* A timer that was overwritten while pending fires.
StaleTimerFire(t) ==
    /\ thread[t].stale > 0
    /\ Return(TimerClose([World EXCEPT !.thread[t].stale = @ - 1], t))
    /\ UNCHANGED noMutexVars

\* worker.terminate() resolves: `this.worker = undefined` in every close() that
\* awaits it.
CloseDone(t) ==
    /\ thread[t].dying
    /\ thread' = [thread EXCEPT ![t].worker = 0, ![t].dying = FALSE]
    /\ closeCall' = [k \in DOMAIN closeCall |->
            IF closeCall[k].t = t /\ closeCall[k].state = "terminating"
            THEN [closeCall[k] EXCEPT !.state = "true"]
            ELSE closeCall[k]]
    /\ UNCHANGED <<pool, runCall, idleCall>>
    /\ UNCHANGED noMutexVars

ResizeMinThreads(value2) ==
    /\ Return(Resized(SetMinThreads(Call(World, "minThreads", value2), value2)))
    /\ UNCHANGED noMutexVars

ResizeMaxThreads(value2) ==
    /\ Return(Resized(SetMaxThreads(Call(World, "maxThreads", value2), value2)))
    /\ UNCHANGED noMutexVars

ResizeIdleTimeout(value) ==
    /\ Return(Resized(SetIdleTimeout(Call(World, "idleTimeout", value), value)))
    /\ UNCHANGED noMutexVars

\* The sizes (doubled) the pools of the run specifications are constructed with: two
\* or three Threads, none or one of them warm, and minThreads 3 with maxThreads 2.
PoolSizes ==
    {<<min2, max2>> : min2 \in {0, 2}, max2 \in {4, 6}} \cup {<<6, 4>>}

InitPool ==
    /\ NoMutex
    /\ \E sizes \in PoolSizes, idleTimeout \in {0, Infinity} :
            Start(Construct(Empty, sizes[1], sizes[2], idleTimeout))

Within ==
    /\ Len(thread') <= MaxHeap
    /\ Len(runCall') <= MaxRun
    /\ Len(closeCall') <= MaxClose
    /\ Len(idleCall') <= MaxIdle

\* Calls, closes, replies and timers on a pool whose sizes stay as constructed.  No timer
\* is overwritten while pending here: that takes an assignment to idleTimeout.
NextPool ==
    \/ PoolRun /\ Within
    \/ PoolIdle /\ Within
    \/ PoolIdleResume
    \/ \E force \in BOOLEAN : PoolClose(force) /\ Within
    \/ CloseResume /\ Within
    \/ \E c \in DOMAIN runCall : Task /\ Reply(c) /\ Within
    \/ \E t \in DOMAIN thread : Task /\ TimerFire(t) /\ Within
    \/ \E t \in DOMAIN thread : Task /\ CloseDone(t)

SpecPool ==
    InitPool /\ [][NextPool]_vars

\* The pool with no unit force-closed and no promise of ThreadPool.idle.
NextPoolLive ==
    \/ PoolRun /\ Within
    \/ PoolClose(FALSE) /\ Within
    \/ CloseResume /\ Within
    \/ \E c \in DOMAIN runCall : Task /\ Reply(c) /\ Within
    \/ \E t \in DOMAIN thread : Task /\ TimerFire(t) /\ Within
    \/ \E t \in DOMAIN thread : Task /\ CloseDone(t)

\* Every task that a worker received completes, and a pending microtask runs.
SpecPoolLive ==
    /\ InitPool /\ [][NextPoolLive]_vars
    /\ WF_vars(CloseResume /\ Within)
    /\ \A c \in 1..MaxRun : WF_vars(Answer(c))

MaxResize == 1

WithinResize ==
    /\ Within
    /\ pool'.sized <= MaxResize

\* Calls and replies on a pool whose sizes and idleTimeout are assigned meanwhile.
NextResize ==
    \/ PoolRun /\ Within
    \/ CloseResume /\ Within
    \/ \E c \in DOMAIN runCall : Task /\ Reply(c) /\ Within
    \/ \E t \in DOMAIN thread : Task /\ TimerFire(t) /\ Within
    \/ \E t \in DOMAIN thread : Task /\ StaleTimerFire(t) /\ Within
    \/ \E t \in DOMAIN thread : Task /\ CloseDone(t)
    \/ \E value2 \in {2, 6} : ResizeMaxThreads(value2) /\ WithinResize
    \/ \E value2 \in {0, 2} : ResizeMinThreads(value2) /\ WithinResize
    \/ \E value \in {0, Infinity} : ResizeIdleTimeout(value) /\ WithinResize

SpecResize ==
    InitPool /\ [][NextResize]_vars

----------------------------------------------------------------------------
\* One Thread used directly: run, close, fn, idleTimeout, idle and listeners.
\*
\* The Thread is the heap index 1 and there is no pool.  A close() that finds the
\* Thread open and not busy still awaits the idle promise: its continuation is a
\* microtask, so the code that follows the call in the same task runs first.  While
\* such a continuation is pending no new task (reply, timer, exit of a worker) starts.

MaxThreadRun == 3
MaxThreadClose == 2
MaxListen == 2

\* The function a worker holds after `set fn`, which leaves it as it was.
NotPosted(rec, value) ==
    rec.wfn

\* `set fn`: an open worker is sent the new function.
Posted(rec, value) ==
    IF rec.worker # 0 THEN value ELSE rec.wfn

\* `set fn(value)`
SetFn(rec, value) ==
    [rec EXCEPT !.wfn = Posted(rec, value), !.fn = value]

\* `get idle` of a Thread: resolved at once when the Thread is not busy, else by a
\* once('idle') listener.  The record keeps queued as the call found it (busy) and
\* as it is when the promise resolves (queued).
ThreadIdle(w, t) ==
    IF Busy(w.thread[t])
    THEN [w EXCEPT !.idleCall = Append(@,
                [pending |-> {t}, state |-> "pending", busy |-> w.thread[t].queued, value |-> 0,
                 queued |-> w.thread[t].queued, idles |-> 0,
                 idles0 |-> w.thread[t].idles]),
                   !.thread[t].once = Append(@, [kind |-> "await", n |-> Len(w.idleCall) + 1])]
    ELSE [w EXCEPT !.idleCall = Append(@,
                [pending |-> {}, state |-> "resolved", busy |-> 0, value |-> t,
                 queued |-> w.thread[t].queued, idles |-> w.thread[t].idles,
                 idles0 |-> w.thread[t].idles])]

\* A listener as on, once, prependListener and prependOnceListener register it; act
\* is what the listener does: it counts its calls, or it calls run as well when it is
\* called for the first time.
Listener(event, once, prepend, act) ==
    [event |-> event, once |-> once, prepend |-> prepend, act |-> act,
     calls |-> 0, gone |-> FALSE]

UserRun(arg) ==
    /\ Return(ThreadRun(NewRun(World, arg), 1, Len(runCall) + 1))
    /\ UNCHANGED noMutexVars

UserClose(force) ==
    /\ Return(ThreadClose(World, 1, force))
    /\ UNCHANGED noMutexVars

UserSetFn(value) ==
    /\ thread' = [thread EXCEPT ![1] = SetFn(@, value)]
    /\ UNCHANGED <<pool, runCall, closeCall, idleCall>>
    /\ UNCHANGED noMutexVars

UserSetIdleTimeout(value) ==
    /\ thread' = [thread EXCEPT ![1] = SetThreadIdleTimeout(@, value)]
    /\ UNCHANGED <<pool, runCall, closeCall, idleCall>>
    /\ UNCHANGED noMutexVars

UserIdle ==
    /\ Return(ThreadIdle(World, 1))
    /\ UNCHANGED noMutexVars

\* on(event, listener) and once(event, listener): the listener is the last.
UserListen(event, once, act) ==
    /\ thread' = [thread EXCEPT ![1].user = Append(@, Listener(event, once, FALSE, act))]
    /\ UNCHANGED <<pool, runCall, closeCall, idleCall>>
    /\ UNCHANGED noMutexVars

\* prependListener(event, listener): the listener is the first.
PrependListener(event, act) ==
    /\ thread' = [thread EXCEPT ![1].user = <<Listener(event, FALSE, TRUE, act)>> \o @]
    /\ UNCHANGED <<pool, runCall, closeCall, idleCall>>
    /\ UNCHANGED noMutexVars

\* prependOnceListener(event, listener): the listener is the first, and is called
\* once.
PrependOnceListener(event, act) ==
    /\ thread' = [thread EXCEPT ![1].user = <<Listener(event, TRUE, TRUE, act)>> \o @]
    /\ UNCHANGED <<pool, runCall, closeCall, idleCall>>
    /\ UNCHANGED noMutexVars

\* new Thread(fn, { idleTimeout })
InitThread ==
    /\ NoMutex
    /\ \E idleTimeout \in {0, Infinity} :
            Start([Empty EXCEPT !.thread = <<NewThread("f", idleTimeout)>>])

WithinThread ==
    /\ Len(runCall') <= MaxThreadRun
    /\ Len(closeCall') <= MaxThreadClose
    /\ Len(idleCall') <= MaxIdle
    /\ Len(thread'[1].user) <= MaxListen

\* run, close, idle and idleTimeout in any order, and the tasks of the event loop.
NextThread ==
    \/ \E arg \in Args : UserRun(arg) /\ WithinThread
    \/ \E force \in BOOLEAN : UserClose(force) /\ WithinThread
    \/ CloseResume /\ WithinThread
    \/ \E value \in {0, Infinity} : UserSetIdleTimeout(value)
    \/ UserIdle /\ WithinThread
    \/ \E c \in DOMAIN runCall : Task /\ Reply(c) /\ WithinThread
    \/ Task /\ TimerFire(1) /\ WithinThread
    \/ Task /\ StaleTimerFire(1) /\ WithinThread
    \/ Task /\ CloseDone(1)

SpecThread ==
    InitThread /\ [][NextThread]_vars

MaxListenClose == 1
MaxListenRun == 2

WithinListen ==
    /\ Len(runCall') <= MaxListenRun
    /\ Len(closeCall') <= MaxListenClose
    /\ Len(thread'[1].user) <= MaxListen

\* Listeners on the events of a Thread that runs and closes.
NextListen ==
    \/ \E arg \in Args : UserRun(arg) /\ WithinListen
    \/ \E force \in BOOLEAN : UserClose(force) /\ WithinListen
    \/ CloseResume /\ WithinListen
    \/ \E event \in {"idle", "busy", "close"}, once \in BOOLEAN :
            UserListen(event, once, "count") /\ WithinListen
    \/ \E event \in {"idle", "busy"} : UserListen(event, FALSE, "run") /\ WithinListen
    \/ \E event \in {"idle", "busy", "close"}, act \in {"count", "run"} :
            PrependListener(event, act) /\ WithinListen
    \/ \E event \in {"idle", "busy", "close"}, act \in {"count", "run"} :
            PrependOnceListener(event, act) /\ WithinListen
    \/ \E c \in DOMAIN runCall : Task /\ Reply(c) /\ WithinListen
    \/ Task /\ TimerFire(1) /\ WithinListen
    \/ Task /\ CloseDone(1)

SpecListen ==
    InitThread /\ [][NextListen]_vars

\* Assignments to fn between the calls of a Thread that runs and closes.
NextFn ==
    \/ \E arg \in Args : UserRun(arg) /\ WithinThread
    \/ \E force \in BOOLEAN : UserClose(force) /\ WithinThread
    \/ CloseResume /\ WithinThread
    \/ \E value \in Callables : UserSetFn(value)
    \/ \E c \in DOMAIN runCall : Task /\ Reply(c) /\ WithinThread
    \/ Task /\ TimerFire(1) /\ WithinThread
    \/ Task /\ CloseDone(1)

SpecFn ==
    InitThread /\ [][NextFn]_vars

WithinTimer ==
    /\ Len(runCall') <= MaxThreadRun
    /\ Len(closeCall') <= MaxThreadRun
    /\ Len(thread'[1].user) <= MaxListen

\* A Thread that is only run: it is closed by its timer.
NextTimer ==
    \/ \E arg \in Args : UserRun(arg) /\ WithinTimer
    \/ \E event \in {"idle", "busy"} : UserListen(event, FALSE, "run") /\ WithinTimer
    \/ \E value \in {0, Infinity} : UserSetIdleTimeout(value)
    \/ \E c \in DOMAIN runCall : Reply(c) /\ WithinTimer
    \/ TimerFire(1) /\ WithinTimer
    \/ StaleTimerFire(1) /\ WithinTimer
    \/ CloseDone(1)

\* Every call that a worker received is answered, a timer that is pending fires, and
\* a worker that was told to terminate exits.
SpecTimer ==
    /\ InitThread /\ [][NextTimer]_vars
    /\ \A c \in 1..MaxThreadRun : WF_vars(Answer(c) /\ WithinTimer)
    /\ WF_vars(TimerFire(1) /\ WithinTimer)
    /\ WF_vars(CloseDone(1))

----------------------------------------------------------------------------
\* The claims.

Range(q) ==
    {q[n] : n \in DOMAIN q}

\* The event at position n of Mutex h is the one this step has dispatched: it left
\* the queue alone, or with the other events of its channel, which the step closed.
Dispatched(h, n) ==
    inbox'[h] \in {RemoveAt(inbox[h], n), DropEvents(inbox[h], inbox[h][n].l)}

\* mutex.cancel() was called while the Mutex held request id i.
Canceled(i) ==
    \E c \in DOMAIN cancelCall : cancelCall[c].id = i

TimedOut(i) ==
    lockCall[i].state = "TimeoutError"

Granted(i) ==
    i \in Range(grants)

\* C1: for every key, at most one Mutex has locked = true, whatever lock, cancel,
\* release and timeout events occur.
MutualExclusion ==
    \A k \in Keys : Cardinality({h \in Mutexes : key[h] = k /\ locked[h]}) <= 1

\* C2: of two non-priority requests for one key, neither canceled nor timed out, the
\* one the Coordinator received later is never granted before the earlier one.
FifoGrantOrder ==
    \A m, n \in DOMAIN arrived :
        (/\ m < n
         /\ arrived[m].key = arrived[n].key
         /\ ~arrived[m].priority /\ ~arrived[n].priority
         /\ ~Canceled(arrived[m].id) /\ ~Canceled(arrived[n].id)
         /\ ~TimedOut(arrived[m].id) /\ ~TimedOut(arrived[n].id)
         /\ Granted(arrived[n].id))
        => Granted(arrived[m].id)

\* C3: the first request for a key the Coordinator has never seen is granted in the
\* step that handles it, whatever its priority flag; a request that arrives while
\* another id is at position 0 of the key's queue is not granted in that step, and a
\* grant for an id that arrived earlier is only ever posted by the step that handles
\* a mutex_release for its key.
FirstGrantedSecondAfterRelease ==
    [][/\ arrived' # arrived =>
            LET a == arrived'[Len(arrived')]
            IN  /\ ~Has(a.key) => grants' = Append(grants, a.id)
                /\ a.queue # <<>> => grants' = grants
       /\ (arrived' = arrived /\ grants' # grants) =>
            /\ bus # <<>>
            /\ Head(bus).action = "mutex_release"
            /\ grants' = Append(grants, mutexMap'[Head(bus).key][1])
            /\ mutexMap'[Head(bus).key][1] \in {arrived[n].id : n \in DOMAIN arrived}
      ]_vars

\* A priority request for a fresh key was granted on arrival, a second request for
\* the key arrived behind it and was granted later.
FirstGrantedSecondAfterReleaseWitness ==
    \E m, n \in DOMAIN arrived :
        /\ m < n
        /\ arrived[m].key = arrived[n].key
        /\ arrived[m].priority
        /\ \A j \in 1..(m - 1) : arrived[j].key # arrived[m].key
        /\ arrived[n].queue # <<>>
        /\ Granted(arrived[m].id)
        /\ Granted(arrived[n].id)

\* C4: a priority request that arrives at a non-empty queue goes to position 1,
\* behind the holder, and is granted before every non-priority request that was
\* waiting in the queue when it arrived (none of them canceled).
PriorityBehindHolderBeforeWaiters ==
    \A n \in DOMAIN arrived :
        (arrived[n].priority /\ arrived[n].queue # <<>>) =>
            /\ arrived[n].at = 1
            /\ \A m \in 1..(n - 1) :
                   (/\ arrived[m].id \in Range(Tail(arrived[n].queue))
                    /\ ~arrived[m].priority
                    /\ ~Canceled(arrived[m].id) /\ ~Canceled(arrived[n].id)
                    /\ Granted(arrived[m].id))
                   => Granted(arrived[n].id)

\* C5: with no cancel and no timeout, and every locked Mutex releasing, every lock
\* request is eventually granted.
EveryRequestGranted ==
    \A i \in 1..MaxLock : (i \in DOMAIN lockCall) ~> Granted(i)

\* C6: a cancel the Coordinator handles while the id waits at a non-head position
\* removes exactly that id; once its confirmation has been dispatched (no timer of
\* the two calls having fired) the lock() promise has rejected with LockCancelError
\* and cancel() has resolved true.
CancelOfWaiter ==
    \A c \in DOMAIN cancelCall :
        LET call == cancelCall[c]
        IN  (call.handled /\ IndexOf(call.before, call.id) >= 1) =>
                /\ call.after = SelectSeq(call.before, LAMBDA x : x # call.id)
                /\ Len(call.after) = Len(call.before) - 1
                /\ call.after[1] = call.before[1]
                /\ (/\ inbox[call.h] = <<>>
                    /\ call.state # "TimeoutError"
                    /\ ~TimedOut(call.id))
                   => /\ lockCall[call.id].state = "LockCancelError"
                      /\ call.state = "true"

\* C7: a cancel for an id that is not in the key's queue leaves the queue unchanged.
CancelOfAbsentIsNoop ==
    \A c \in DOMAIN cancelCall :
        (cancelCall[c].handled /\ cancelCall[c].id \notin Range(cancelCall[c].before))
        => cancelCall[c].after = cancelCall[c].before

\* C8: a lock() promise settles once, and only by the reply for its own request id or
\* by its timer: it resolves in a step that dispatches the grant for its id and sets
\* locked, rejects with LockCancelError in a step that dispatches the cancel
\* confirmation for its id, rejects with TimeoutError only if it was given a timeout;
\* and no grant for a request that has timed out sets locked to true.
SettledByOwnReply ==
    [][/\ \A i \in DOMAIN lockCall :
            LET h == lockCall[i].h
            IN  IF lockCall[i].state # "pending"
                THEN lockCall'[i].state = lockCall[i].state
                ELSE \/ lockCall'[i].state = "pending"
                     \/ /\ lockCall'[i].state = "resolved"
                        /\ \E n \in Deliverable(h) :
                             /\ Dispatched(h, n)
                             /\ inbox[h][n].m.action = "mutex_resolve_lock"
                             /\ inbox[h][n].m.id = i
                        /\ locked'[h]
                     \/ /\ lockCall'[i].state = "LockCancelError"
                        /\ \E n \in Deliverable(h) :
                             /\ Dispatched(h, n)
                             /\ inbox[h][n].m.action = "mutex_reject_lock"
                             /\ inbox[h][n].m.id = i
                     \/ /\ lockCall'[i].state = "TimeoutError"
                        /\ lockCall[i].timeout
                        /\ locked' = locked
       /\ \A h \in Mutexes :
            (~locked[h] /\ locked'[h]) =>
                \E n \in Deliverable(h) : Dispatched(h, n) /\ ~TimedOut(inbox[h][n].m.id)
      ]_vars

\* C9: a locked Mutex holds a request id that the Coordinator has granted.
LockedImpliesGranted ==
    \A h \in Mutexes : (locked[h] /\ id[h] # Undefined) => Granted(id[h])

\* C10: Mutex.waiting(key) resolves to the length the key's queue had when the
\* Coordinator handled the query (0 for a key it has never seen).
WaitingResolvesQueueLength ==
    \A w \in DOMAIN waitCall :
        waitCall[w].state = "resolved" =>
            /\ waitCall[w].asked
            /\ waitCall[w].value = waitCall[w].length


\* C11: a mutex_release is posted only by a step in which a locked Mutex of that key
\* becomes unlocked (so release() on an unlocked Mutex, and a second release(), post
\* nothing); the step that unlocks a Mutex posts exactly one mutex_release for its key,
\* clears its id, and is a release() that returns true; a release() that returns
\* false finds no Mutex locked that it could unlock, posts nothing and changes no
\* Mutex; an unset id is set again only by a new lock() with a fresh id, and a Mutex
\* becomes locked only by dispatching the grant for the id it holds.
ReleaseRoundTrip ==
    [][/\ (Len(bus') > Len(bus) /\ bus'[Len(bus')].action = "mutex_release") =>
            \E h \in Mutexes :
                /\ locked[h] /\ ~locked'[h]
                /\ bus'[Len(bus')].key = key[h]
       /\ (released' # released /\ released' = "true") =>
            \E h \in Mutexes : locked[h] /\ ~locked'[h]
       /\ (released' # released /\ released' = "false") =>
            /\ UNCHANGED <<bus, id, locked>>
            /\ \E h \in Mutexes : ~locked[h]
       /\ \A h \in Mutexes :
            /\ (locked[h] /\ ~locked'[h]) =>
                    /\ bus' = Append(bus, Msg("mutex_release", Undefined, key[h], FALSE, 0))
                    /\ id'[h] = Undefined
                    /\ released' = "true"
            /\ (id[h] = Undefined /\ id'[h] # Undefined) =>
                    /\ lockCall' = Append(lockCall, lockCall'[Len(lockCall')])
                    /\ id'[h] = Len(lockCall')
                    /\ lockCall'[id'[h]].h = h
                    /\ bus'[Len(bus')].action = "mutex_lock"
                    /\ bus'[Len(bus')].id = id'[h]
            /\ (~locked[h] /\ locked'[h]) =>
                    /\ id[h] # Undefined
                    /\ \E n \in Deliverable(h) :
                         /\ Dispatched(h, n)
                         /\ inbox[h][n].m.action = "mutex_resolve_lock"
                         /\ inbox[h][n].m.id = id[h]
      ]_vars

\* A Mutex was granted request 1, released it, called lock() again and holds the key
\* by request 2, with no cancel in between.
ReleaseRoundTripWitness ==
    \E h \in Mutexes :
        /\ locked[h] /\ id[h] = 2
        /\ released = "true"
        /\ lockCall[1].h = h /\ lockCall[1].state = "resolved"
        /\ cancelCall = <<>>
        /\ Has(key[h]) /\ mutexMap[key[h]] = <<2>>


\* The unit at index i (from 0) of the pool's list.
Unit(i) ==
    thread[pool.threads[i + 1]]

\* C16: after construction with any accepted options and after any assignments,
\* 0 <= minThreads <= maxThreads and the pool has maxThreads units.
SizesAgree ==
    /\ 0 <= pool.min
    /\ pool.min <= pool.max
    /\ Len(pool.threads) = pool.max

\* C17: the units below minThreads have idleTimeout Infinity and the others the
\* pool's idleTimeout, in every state; assigning the pool's idleTimeout leaves the
\* timeout of the units below minThreads as it was.
WarmLayout ==
    /\ [](\A i \in 0..(Len(pool.threads) - 1) :
            Unit(i).idleTimeout = IF i < pool.min THEN Infinity ELSE pool.idle)
    /\ [][pool'.last[1] = "idleTimeout" =>
            /\ pool'.threads = pool.threads
            /\ pool'.min = pool.min
            /\ \A i \in 0..(pool.min - 1) :
                    i < Len(pool.threads) =>
                        thread'[pool.threads[i + 1]].idleTimeout = Unit(i).idleTimeout
         ]_poolVars

WarmLayoutWitness ==
    /\ pool.last = <<"idleTimeout", 0>>
    /\ pool.error = "none"
    /\ pool.min = 1 /\ pool.max = 3 /\ Len(pool.threads) = 3
    /\ pool.idle = 0
    /\ Unit(0).idleTimeout = Infinity
    /\ Unit(1).idleTimeout = 0 /\ Unit(2).idleTimeout = 0

\* C18: assigning maxThreads a value n below minThreads lowers minThreads to n,
\* assigning minThreads a value n above maxThreads raises maxThreads to n, and
\* the list has exactly n units afterwards.
SettersPullEachOther ==
    [][LET n == pool'.last[2] \div 2
       IN  /\ (/\ pool'.last # pool.last
               /\ pool'.last[1] = "maxThreads"
               /\ n >= 1 /\ IsInteger(pool'.last[2])
               /\ n < pool.min) =>
                    /\ pool'.min = n
                    /\ Len(pool'.threads) = n
           /\ (/\ pool'.last # pool.last
               /\ pool'.last[1] = "minThreads"
               /\ n >= 0 /\ IsInteger(pool'.last[2])
               /\ n > pool.max) =>
                    /\ pool'.max = n
                    /\ Len(pool'.threads) = n
      ]_poolVars

\* C19: an assignment of a negative or non-integer minThreads, or of a maxThreads
\* below 1 or non-integer, throws RangeError and leaves minThreads, maxThreads and
\* the units as they were.
InvalidSizeThrows ==
    [][/\ (/\ pool'.last[1] = "minThreads"
           /\ (pool'.last[2] < 0 \/ pool'.last[2] % 2 # 0)) =>
                /\ pool'.error = "RangeError"
                /\ pool'.min = pool.min /\ pool'.max = pool.max
                /\ pool'.threads = pool.threads /\ thread' = thread
       /\ (/\ pool'.last[1] = "maxThreads"
           /\ (pool'.last[2] < 2 \/ pool'.last[2] % 2 # 0)) =>
                /\ pool'.error = "RangeError"
                /\ pool'.min = pool.min /\ pool'.max = pool.max
                /\ pool'.threads = pool.threads /\ thread' = thread
      ]_poolVars

InvalidSizeThrowsWitness ==
    /\ pool.last = <<"maxThreads", 1>>
    /\ pool.error = "RangeError"
    /\ pool.min = 1 /\ pool.max = 2 /\ Len(pool.threads) = 2

\* C12: ThreadPool.run never invokes a unit that is busy at the moment of the
\* invocation while some unit of the pool is not busy, waiting calls and pools
\* whose size changed meanwhile included.
NeverBusyWhileOneFree ==
    \A c \in DOMAIN runCall :
        runCall[c].state \in {"running", "settled"} =>
            ~(runCall[c].busyAt /\ runCall[c].freeAt)

\* C15: the units that hold an open worker or an in-flight call are at most
\* maxThreads, also after maxThreads was lowered.
AtMostMaxThreadsInUse ==
    Cardinality({t \in DOMAIN thread : ~Closed(thread[t]) \/ Busy(thread[t])}) <= pool.max

\* C20: when the promise of ThreadPool.idle resolves, no unit of the pool is busy.
IdleResolvesWithNoneBusy ==
    \A n \in DOMAIN idleCall :
        idleCall[n].state = "resolved" => idleCall[n].busy = 0

\* The units of the run call c's race none of which need become idle: each carries
\* a call that was posted to a terminating worker or was in flight at terminate().
NoUnitCompletes(c) ==
    \A t \in runCall[c].race :
        \E d \in DOMAIN runCall :
            /\ runCall[d].unit = t /\ runCall[d].state = "running"
            /\ runCall[d].lost \/ runCall[d].killed

\* C13: a run call that waits because every unit is busy is eventually invoked on
\* a unit, provided the calls in flight on at least one of the units complete and
\* no unit is force-closed.  No close is forced under SpecPoolLive.
WaitingRunIsInvoked ==
    \A c \in 1..MaxRun :
        (c \in DOMAIN runCall /\ runCall[c].state = "waiting")
            ~> (/\ c \in DOMAIN runCall
                /\ (runCall[c].state # "waiting" \/ NoUnitCompletes(c)))

WaitingRunIsInvokedWitness ==
    \E c \in DOMAIN runCall :
        /\ runCall[c].race # {}
        /\ runCall[c].state = "settled"
        /\ runCall[c].unit \in runCall[c].race

\* The run calls from b on that were issued before any call completed.
Batch(b) ==
    {c \in b..Len(runCall) : runCall[c].done0 = runCall[b].done0}

\* C14: from a pool whose units are all idle, k <= maxThreads calls issued before
\* any completes run on k distinct units; ThreadPool.busy is k while they all
\* execute and 0 once all have settled.
BatchOnDistinctUnits ==
    \A b \in DOMAIN runCall :
        (/\ runCall[b].idle0
         /\ Cardinality(Batch(b)) <= pool.max
         /\ \A c \in Batch(b) : ~runCall[c].resized) =>
            /\ \A c \in Batch(b) : runCall[c].state # "waiting"
            /\ \A c, d \in Batch(b) : c # d => runCall[c].unit # runCall[d].unit
            /\ (\A c \in Batch(b) : runCall[c].state = "running") =>
                    PoolBusy(World) = Cardinality(Batch(b))
            /\ (/\ Batch(b) = b..Len(runCall)
                /\ \A c \in Batch(b) : runCall[c].state = "settled") =>
                    PoolBusy(World) = 0

BatchOnDistinctUnitsWitness ==
    /\ Len(runCall) = 2
    /\ runCall[1].idle0 /\ Batch(1) = {1, 2}
    /\ runCall[1].unit # runCall[2].unit
    /\ runCall[1].state = "settled" /\ runCall[2].state = "settled"
    /\ PoolBusy(World) = 0
\* The run calls issued on Thread t whose promise has not settled.
Unsettled(t) ==
    {c \in DOMAIN runCall : runCall[c].unit = t /\ runCall[c].state = "running"}

\* C26: at every point Thread.queued is the number of run calls issued on the Thread
\* and not yet settled, and it is never negative, also when run is called from inside
\* a 'busy' or an 'idle' listener.
QueuedCountsUnsettled ==
    /\ thread[1].queued >= 0
    /\ thread[1].queued = Cardinality(Unsettled(1))

\* C30: a listener registered with once() for 'idle', 'busy' or 'close' is called at
\* most once: it is removed the first time the event fires.
OnceListenerCalledOnce ==
    \A i \in DOMAIN thread[1].user :
        thread[1].user[i].once => thread[1].user[i].calls <= 1

\* The close() calls that have reached terminate().
Terminated ==
    {k \in DOMAIN closeCall : closeCall[k].state \in {"terminating", "true"}}

\* C22: close(false) never terminates a worker with a call in flight: when it calls
\* terminate() queued is 0 and no call is in flight on the worker.
GracefulCloseKillsNothing ==
    \A k \in Terminated :
        ~closeCall[k].force => closeCall[k].queued = 0 /\ closeCall[k].killed = {}

\* C23: close() resolves true exactly when that call terminated a live worker and
\* false when the Thread was already closed: for any sequence of close() calls each
\* opened worker makes exactly one close() resolve true.
OneTrueClosePerWorker ==
    /\ \A k \in DOMAIN closeCall :
            closeCall[k].state = "false" => closeCall[k].open0 = 0
    /\ \A k, m \in DOMAIN closeCall :
            /\ closeCall[k].state = "true"
            /\ closeCall[m].state = "true"
            /\ closeCall[k].worker = closeCall[m].worker
            => k = m

\* What the promise of the run call c settles with.
OwnResult(c) ==
    /\ runCall[c].data = Invoke(runCall[c].fn0, runCall[c].arg, c).data
    /\ runCall[c].outcome = IF runCall[c].arg = "bad" THEN "rejected" ELSE "resolved"

\* C21: with several run calls in flight on one Thread, each promise settles exactly
\* once, with the result or the error of its own call, whatever the order of the
\* replies.
EachCallSettlesWithOwnResult ==
    /\ [](\A c \in Settled(runCall) : OwnResult(c))
    /\ [][\A c \in Settled(runCall) : c \in DOMAIN runCall' /\ runCall'[c] = runCall[c]]_vars

\* Three calls were in flight together on one worker; the second was answered
\* first, with its own error, then the third, and the first is still in flight.
EachCallSettlesWithOwnResultWitness ==
    \E c \in InFlight(World, 1), d, e \in Settled(runCall) :
        /\ c < d /\ d < e
        /\ runCall[d].worker = runCall[c].worker
        /\ runCall[e].worker = runCall[c].worker
        /\ runCall[e].queued0 = 2
        /\ runCall[d].arg = "bad" /\ runCall[e].arg = "ok"
        /\ OwnResult(d) /\ OwnResult(e)

\* C24: close(true) terminates without waiting: the promises of the calls in flight
\* never settle, queued is never decremented for them, and the Thread keeps reporting
\* busy and never emits 'idle' afterwards.
ForcedCloseLeavesBusy ==
    \A k \in Terminated :
        closeCall[k].force /\ closeCall[k].killed # {} =>
            /\ \A c \in closeCall[k].killed : runCall[c].state = "running"
            /\ Busy(thread[1])
            /\ thread[1].idles = closeCall[k].idles

\* The reply to the run call c, whose function threw, is taken in this step.
Fails(c) ==
    /\ runCall[c].state = "running"
    /\ runCall[c].arg = "bad"
    /\ runCall'[c].state = "settled"

\* C25: when the function throws for one call, exactly that promise rejects with the
\* error; the other calls in flight are unaffected, queued is decremented for the
\* failed call, and the Thread stays open and usable: nothing but a close() that was
\* waiting for 'idle' terminates the worker.
FailedCallRejectsAlone ==
    [][\A c \in DOMAIN runCall : Fails(c) =>
            /\ runCall'[c].outcome = "rejected"
            /\ runCall'[c].data = Invoke(runCall[c].fn0, "bad", c).data
            /\ \A d \in DOMAIN runCall \ {c} : runCall'[d] = runCall[d]
            /\ thread'[1].queued = thread[1].queued - 1
            /\ thread'[1].worker = thread[1].worker
            /\ (\A k \in DOMAIN closeCall : closeCall[k].state # "waiting") =>
                    thread'[1].dying = thread[1].dying]_vars

\* C27: the promise of Thread.idle resolves at once when queued is 0, otherwise at
\* the next transition of queued to 0 and not earlier, and it resolves to the Thread
\* itself.
IdleResolvesAtNextIdle ==
    \A n \in DOMAIN idleCall :
        /\ idleCall[n].state = "resolved" =>
                /\ idleCall[n].value = 1
                /\ idleCall[n].queued = 0
                /\ idleCall[n].idles = idleCall[n].idles0 + (IF idleCall[n].busy > 0 THEN 1 ELSE 0)
        /\ idleCall[n].state = "pending" =>
                /\ idleCall[n].busy > 0
                /\ thread[1].idles = idleCall[n].idles0

\* A promise taken with two calls in flight has resolved, at the second reply.
IdleResolvesAtNextIdleWitness ==
    \E n \in DOMAIN idleCall :
        /\ idleCall[n].state = "resolved"
        /\ idleCall[n].busy = 2
        /\ idleCall[n].value = 1
        /\ idleCall[n].idles = idleCall[n].idles0 + 1
        /\ Cardinality(Settled(runCall)) >= 2

\* The run calls that Thread.run has posted to a worker.
Issued ==
    {c \in DOMAIN runCall : runCall[c].state # "waiting"}

\* C29: after an assignment to Thread.fn every later run executes the new function
\* and every earlier one the old, whether the Thread is open or closed; fn reads as
\* the value assigned last.
RunExecutesCurrentFn ==
    /\ \A c \in Issued : runCall[c].ran = runCall[c].fn0
    /\ \A c \in Settled(runCall) : runCall[c].data[1] = runCall[c].fn0
    /\ thread[1].worker # 0 => thread[1].wfn = thread[1].fn

\* Two calls on one worker ran different functions, and a call that opened a new
\* worker ran another function than the call before it.
RunExecutesCurrentFnWitness ==
    /\ \E c, d \in Settled(runCall) :
            /\ c < d
            /\ runCall[c].worker = runCall[d].worker
            /\ runCall[c].data[1] # runCall[d].data[1]
    /\ \E c, d \in Settled(runCall) :
            /\ d = c + 1
            /\ runCall[d].worker = d
            /\ runCall[c].data[1] # runCall[d].data[1]

\* C28: a Thread with a finite idleTimeout that becomes idle and receives no further
\* run is eventually closed by its timer; a run that arrives before the timer fires
\* cancels that closure (no timer is pending once a run was issued), and the Thread
\* stays open while busy: no closure by the timer terminates a worker with a call in
\* flight.
IdleThreadIsClosed ==
    /\ (/\ thread[1].worker # 0
        /\ ~Busy(thread[1])
        /\ thread[1].idleTimeout # Infinity)
       ~> (thread[1].worker = 0 \/ Busy(thread[1]))
    /\ [][Len(runCall') > Len(runCall) => ~thread'[1].timer]_vars
    /\ [][\A k \in DOMAIN closeCall' : closeCall'[k].killed = {}]_vars

\* C31: assigning a negative idleTimeout to a Thread or to a ThreadPool throws
\* RangeError and leaves the idleTimeout of the pool and of every Thread unchanged,
\* whatever minThreads and maxThreads are.
NegativeIdleTimeoutThrows ==
    /\ pool.last[1] = "idleTimeout" /\ pool.last[2] < 0 => pool.error = "RangeError"
    /\ pool.idle = Unset \/ pool.idle >= 0
    /\ \A t \in DOMAIN thread : thread[t].idleTimeout >= 0

\* C32: for every key whose queue is not empty, the Coordinator has posted a grant
\* for the id at position 0.
HeadIsGranted ==
    \A k \in DOMAIN mutexMap :
        mutexMap[k] # <<>> => Granted(mutexMap[k][1])


\* C33: a lock() that rejects with TimeoutError leaves its request id in the queue of
\* the Coordinator; the grant for a timed-out id never makes its Mutex locked, so no
\* release follows it; and once a timed-out id has been granted, no other request for
\* the key is granted unless cancel() was called for the timed-out request.
TimedOutRequestBlocksKey ==
    /\ [](\A n \in DOMAIN grants : \A m \in DOMAIN grants :
            /\ n < m
            /\ TimedOut(grants[n])
            /\ ~Canceled(grants[n])
            => key[lockCall[grants[m]].h] # key[lockCall[grants[n]].h])
    /\ [][/\ \A i \in DOMAIN lockCall :
               ~TimedOut(i) /\ lockCall'[i].state = "TimeoutError"
               => mutexMap' = mutexMap /\ bus' = bus
          /\ \A h \in Mutexes : \A n \in Deliverable(h) :
               /\ Dispatched(h, n)
               /\ inbox[h][n].m.action = "mutex_resolve_lock"
               /\ TimedOut(inbox[h][n].m.id)
               => locked'[h] = locked[h]
         ]_vars


\* The Coordinator is handling a mutex_release for a key it has a queue for.
ReleaseHandled ==
    /\ bus # <<>>
    /\ Head(bus).action = "mutex_release"
    /\ bus' = Tail(bus)
    /\ Has(Head(bus).key)

\* C34: case mutex_release removes the id at position 0 of the key's queue whoever sent
\* the release, so a release by a Mutex whose own request was canceled while it held
\* the lock removes another party's request; a request that has left the queue does
\* not return to it, and only the id at position 0 of a queue is granted, so the
\* removed request is never granted afterwards.
ReleaseRemovesHeadWhoeverSent ==
    [][/\ ReleaseHandled =>
            LET k == Head(bus).key
            IN  /\ Len(mutexMap'[k]) = (IF mutexMap[k] = <<>> THEN 0 ELSE Len(mutexMap[k]) - 1)
                /\ \A n \in DOMAIN mutexMap'[k] : mutexMap'[k][n] = mutexMap[k][n + 1]
       /\ \A n \in DOMAIN arrived : \A k \in DOMAIN mutexMap \cap DOMAIN mutexMap' :
            arrived[n].id \notin Range(mutexMap[k]) => arrived[n].id \notin Range(mutexMap'[k])
       /\ grants' # grants =>
            /\ Len(grants') = Len(grants) + 1
            /\ \E k \in DOMAIN mutexMap' :
                 mutexMap'[k] # <<>> /\ mutexMap'[k][1] = grants'[Len(grants')]
      ]_vars

\* A release by Mutex 1, whose request 1 was canceled while it held the lock, has
\* removed request 2 of Mutex 2: the cancel left <<2>>, the queue is empty, and
\* request 2 was neither granted nor canceled.
ReleaseRemovesHeadWhoeverSentWitness ==
    /\ Len(lockCall) = 2 /\ Len(cancelCall) = 1
    /\ lockCall[1].h # lockCall[2].h
    /\ lockCall[1].state = "resolved"
    /\ cancelCall[1].id = 1 /\ cancelCall[1].handled
    /\ cancelCall[1].before = <<1, 2>> /\ cancelCall[1].after = <<2>>
    /\ ~locked[lockCall[1].h]
    /\ bus = <<>>
    /\ \E k \in DOMAIN mutexMap : k = key[lockCall[2].h] /\ mutexMap[k] = <<>>
    /\ ~Granted(2)


\* C35: a reply to a waiting query carries neither key nor request id: the Coordinator
\* delivers the length it computed to every waiting() call still pending, and a
\* waiting() call resolves with the first reply it receives, whichever key it is for.
WaitingResolvesWithFirstReply ==
    [][/\ \A w \in DOMAIN waitCall :
            waitCall[w].state = "pending" /\ waitCall'[w].state = "resolved"
            => /\ waitCall[w].inbox # <<>>
               /\ waitCall'[w].value = Head(waitCall[w].inbox)
       /\ (bus # <<>> /\ Head(bus).action = "mutex_waiting" /\ bus' = Tail(bus))
            => \A w \in DOMAIN waitCall :
                 waitCall[w].state = "pending"
                 => waitCall'[w].inbox = Append(waitCall[w].inbox, QueueLength(Head(bus).key))
      ]_vars

\* Two waiting queries for different keys were in flight, and the second resolved
\* with the queue length of the key of the first, not with that of its own key.
WaitingResolvesWithFirstReplyWitness ==
    /\ Len(waitCall) = 2
    /\ waitCall[1].key # waitCall[2].key
    /\ waitCall[1].asked /\ waitCall[2].asked
    /\ waitCall[2].state = "resolved"
    /\ waitCall[2].value = waitCall[1].length
    /\ waitCall[2].value # waitCall[2].length


\* The position (from 1) of id i in grants, or 0.
GrantedAt(i) ==
    IndexOf(grants, i) + 1

\* C36: priority requests are LIFO among themselves: when a priority request arrives
\* for a key whose queue holds an earlier priority request behind the head, the later
\* one is placed at position 1, ahead of the earlier one, and is granted first: the
\* earlier one is granted only after the later one, unless the later one was canceled.
PriorityIsLifo ==
    \A n \in DOMAIN arrived : \A m \in DOMAIN arrived :
        /\ n < m
        /\ arrived[n].priority /\ arrived[m].priority
        /\ arrived[n].key = arrived[m].key
        /\ IndexOf(arrived[m].queue, arrived[n].id) >= 1
        => /\ arrived[m].at = 1
           /\ Granted(arrived[n].id) /\ ~Canceled(arrived[m].id)
              => /\ Granted(arrived[m].id)
                 /\ GrantedAt(arrived[m].id) < GrantedAt(arrived[n].id)


\* C37: when several ThreadPool.run calls wait because every Thread is busy, the
\* first 'idle' of a Thread they wait for resumes all of them, and all of them are
\* run on the Thread that emitted it; a call keeps the Thread it was given, so none
\* moves to a Thread that becomes idle afterwards.
WaitersShareOneUnit ==
    [][/\ \A c \in DOMAIN runCall : \A d \in DOMAIN runCall :
            /\ runCall[c].state = "waiting" /\ runCall'[c].state # "waiting"
            /\ runCall[d].state = "waiting" /\ runCall'[c].unit \in runCall[d].race
            => /\ runCall'[d].state # "waiting"
               /\ runCall'[d].unit = runCall'[c].unit
       /\ \A c \in DOMAIN runCall :
            runCall[c].unit # 0 => runCall'[c].unit = runCall[c].unit
      ]_vars

\* Two calls that waited are in flight on the same Thread, the only calls it
\* carries, while another Thread of the pool they waited for is not busy.
WaitersShareOneUnitWitness ==
    \E c \in DOMAIN runCall : \E d \in DOMAIN runCall :
        /\ c < d
        /\ runCall[c].race # {} /\ runCall[d].race # {}
        /\ runCall[c].state = "running" /\ runCall[d].state = "running"
        /\ runCall[c].unit = runCall[d].unit
        /\ thread[runCall[c].unit].queued = 2
        /\ \E t \in runCall[d].race : t # runCall[d].unit /\ ~Busy(thread[t])


\* The run call c is given to a Thread in this step.
IssuedNow(c) ==
    /\ c \notin DOMAIN runCall \/ runCall[c].state = "waiting"
    /\ runCall'[c].state = "running"

\* C38: a run call issued while a close() of its Thread, explicit or by the timer, is
\* between terminate() and `this.worker = undefined` is posted to the terminating
\* worker; its promise never settles, and queued is never decremented for it.  (A
\* call posted before terminate() is another case: its answer may still come.)
RunDuringCloseIsLost ==
    [][/\ \A c \in DOMAIN runCall' :
            IssuedNow(c) /\ thread[runCall'[c].unit].dying
            => /\ runCall'[c].lost
               /\ runCall'[c].worker = thread[runCall'[c].unit].worker
       /\ \A c \in DOMAIN runCall :
            runCall[c].lost => runCall'[c].lost /\ runCall'[c].state = "running"
       /\ \A t \in DOMAIN thread' :
            thread'[t].queued >=
                Cardinality({c \in DOMAIN runCall' : runCall'[c].lost /\ runCall'[c].unit = t})
      ]_vars

\* A call was posted to the worker while a close() without force was terminating it:
\* the close has cleared the worker, the call is still unsettled and the Thread busy.
RunDuringCloseIsLostWitness ==
    \E c \in DOMAIN runCall : \E k \in DOMAIN closeCall :
        /\ runCall[c].lost /\ runCall[c].state = "running"
        /\ closeCall[k].state = "true" /\ ~closeCall[k].force
        /\ closeCall[k].worker = runCall[c].worker
        /\ c \notin closeCall[k].killed
        /\ thread[runCall[c].unit].worker = 0
        /\ thread[runCall[c].unit].queued = 1


\* C39: an auto-close timer is pending only while queued is 0 and idleTimeout is
\* finite: none is pending while the Thread is busy, and none is pending on a Thread
\* whose idleTimeout is Infinity, so no timer closes it, also after idleTimeout was
\* assigned on the open Thread.
TimerOnlyWhenIdleAndFinite ==
    \A t \in DOMAIN thread :
        thread[t].timer \/ thread[t].stale > 0
        => ~Busy(thread[t]) /\ thread[t].idleTimeout # Infinity


\* The indices (from 1) of the Threads of the pool that are not busy, and of those
\* that are open as well.
FreeUnits ==
    {i \in DOMAIN pool.threads : ~Busy(thread[pool.threads[i]])}

FreeOpenUnits ==
    {i \in FreeUnits : ~Closed(thread[pool.threads[i]])}

\* C40: with at least one Thread not busy, ThreadPool.run invokes the lowest-index
\* Thread that is open and not busy if there is one, otherwise the lowest-index
\* Thread that is not busy, whose worker it opens; it waits for an 'idle' only when
\* every Thread is busy.
RunPrefersOpenThenLowest ==
    [][Len(runCall') = Len(runCall) + 1 =>
        LET c == Len(runCall')
        IN  /\ FreeOpenUnits # {} =>
                /\ runCall'[c].state # "waiting"
                /\ \E i \in FreeOpenUnits :
                     /\ runCall'[c].unit = pool.threads[i]
                     /\ \A j \in FreeOpenUnits : i <= j
            /\ FreeOpenUnits = {} /\ FreeUnits # {} =>
                /\ runCall'[c].state # "waiting"
                /\ \E i \in FreeUnits :
                     /\ runCall'[c].unit = pool.threads[i]
                     /\ \A j \in FreeUnits : i <= j
                /\ thread'[runCall'[c].unit].worker # 0
            /\ runCall'[c].state = "waiting" <=> FreeUnits = {}
      ]_vars

\* With no Thread busy and the first Thread of the pool closed, the latest call runs
\* on the open worker of the second Thread.
RunPrefersOpenThenLowestWitness ==
    /\ Len(pool.threads) >= 2
    /\ runCall # <<>>
    /\ LET c == Len(runCall)
       IN  /\ runCall[c].state = "running"
           /\ runCall[c].idle0
           /\ runCall[c].unit = pool.threads[2]
           /\ runCall[c].worker # c
           /\ Closed(thread[pool.threads[1]])

====
